---- MODULE Spec2Model ----
(***************************************************************************)
(* Event membership, permissions and invite codes of the wedding-planner   *)
(* backend (routes/events.js, models/Event.js).  Every request handler is  *)
(* modelled as the part that runs up to its `await event.save()` (Begin..) *)
(* and the save itself (Commit), so that two requests can both read an     *)
(* event before either of them writes it.  The store is Mongoose over      *)
(* MongoDB: save() sends the recorded changes of the loaded document       *)
(* ($push, $set of one path, $set of a whole array) together with the      *)
(* version key __v, it does not overwrite the stored document.             *)
(*                                                                         *)
(* Specifications: Spec (membership and permissions, one request at a      *)
(* time), SpecRace (create, join, leave and delete overlapping),           *)
(* SpecAccess (sub-resources, reads, settings and the soft delete),        *)
(* SpecGates (the access gates as functions of req.userMember), SpecCodes  *)
(* and SpecCodesFair (invite codes under overlapping requests), SpecSub    *)
(* (guests and expenses under overlapping requests), SpecIndex (guests and *)
(* expenses addressed by index, one request at a time), SpecVendors        *)
(* (vendors addressed by id), SpecCreate (the creation with its body),     *)
(* SpecJoin (join by code next to updates of the code), SpecBudget         *)
(* (updates that carry the key budget), SpecAuth (registrations that       *)
(* overlap, and logins), SpecTwo (overlapping requests on two events),     *)
(* SpecPerms (set_permission with every :perms), SpecLeave (leave, join    *)
(* and set_permission overlapping), SpecRejoin (leave and join again, one  *)
(* request at a time), SpecSeating (overlapping saves of the seating).     *)
(***************************************************************************)
EXTENDS Integers, Sequences, FiniteSets, TLC

\* ---------------------------------------------------------------- bounds
MaxEvents == 1
MaxInFlight == 2
MaxTime == 1
MaxRequests == 4
NumDraws == 2
MaxPayloadMembers == 1

Users == {"u1", "u2", "u3"}
Slots == 1..MaxInFlight

\* ------------------------------------------------ identifiers and strings
\* A user id is either a BSON ObjectId (an object) or its hex string.
ObjectId(hex) == [type |-> "ObjectId", hex |-> hex]
String(hex) == [type |-> "string", hex |-> hex]

\* ObjectId.prototype.toString(): the hex string of the id.
toString(x) == [type |-> "string", hex |-> x.hex]

\* JavaScript ===: two strings are equal when their characters are; a string
\* is never === to an object, and two ObjectId instances are different
\* objects.
StrictEquals(a, b) == a.type = "string" /\ b.type = "string" /\ a.hex = b.hex

\* req.user._id as the authentication middleware leaves it: the _id of the
\* User document loaded for the token, an ObjectId.
reqUserId(u) == ObjectId(u)

\* req.params.userId: a path segment, a string.
paramUserId(u) == String(u)

\* ------------------------------------------------------------ the schema
PermissionsEnum == {"admin", "collaborator", "pending_approval"}
PermissionsDefault == "pending_approval"
RoleEnum == {"bride", "groom", "family", "friend", "guest"}
RoleDefault == "guest"

\* eventSchema.settings and eventSchema.seating, with their defaults.
SettingsDefault ==
  [budget |-> 0, guestPhotoUploads |-> TRUE, emailNotifications |-> TRUE,
   guestListAccess |-> FALSE, publicGallery |-> TRUE, budgetSharing |-> FALSE,
   rsvpReminders |-> TRUE]
SeatingDefault(t) ==
  [totalGuests |-> 0, guestPool |-> << >>, tableGroups |-> << >>, lastUpdated |-> t]

\* The permission strings a request may carry in :perms or in a body.
PermInputs == {"admin", "collaborator", "owner"}

Gender == [u \in Users |-> IF u = "u1" THEN "female" ELSE "male"]

\* --------------------------------------------------------- invite codes
chars == << "A", "B", "C", "D", "E", "F", "G", "H", "I", "J", "K", "L", "M",
            "N", "O", "P", "Q", "R", "S", "T", "U", "V", "W", "X", "Y", "Z",
            "0", "1", "2", "3", "4", "5", "6", "7", "8", "9" >>
lowerChars == << "a", "b", "c", "d", "e", "f", "g", "h", "i", "j", "k", "l",
                 "m", "n", "o", "p", "q", "r", "s", "t", "u", "v", "w", "x",
                 "y", "z" >>
CodeLength == 8

\* The values of Math.floor(Math.random() * chars.length) over one call of
\* generateInviteCode: the last draw varies, the others are 0.
RandomDraws == { [i \in 1..CodeLength |-> IF i = CodeLength THEN k ELSE 0] : k \in 0..(NumDraws - 1) }

generateInviteCode(draw) == [i \in 1..CodeLength |-> chars[draw[i] + 1]]

upperChar(c) == IF \E i \in 1..Len(lowerChars) : lowerChars[i] = c
                THEN chars[CHOOSE i \in 1..Len(lowerChars) : lowerChars[i] = c]
                ELSE c
lowerChar(c) == IF \E i \in 1..Len(lowerChars) : chars[i] = c
                THEN lowerChars[CHOOSE i \in 1..Len(lowerChars) : chars[i] = c]
                ELSE c
toUpperCase(s) == [i \in DOMAIN s |-> upperChar(s[i])]
toLowerCase(s) == [i \in DOMAIN s |-> lowerChar(s[i])]

NoCode == << >>

\* The invite codes a join request may submit: every code that can be
\* generated, in upper and in lower case, one code no event has and one
\* code that is too short.
CodeInputs == { generateInviteCode(d) : d \in RandomDraws }
              \cup { toLowerCase(generateInviteCode(d)) : d \in RandomDraws }
              \cup { [i \in 1..CodeLength |-> "Z"], << "A" >> }

\* ------------------------------------------------------ sequence helpers
RECURSIVE SelectIdx(_, _, _)
SelectIdx(s, keep, i) ==
  IF i > Len(s) THEN << >>
  ELSE IF keep[i] THEN << s[i] >> \o SelectIdx(s, keep, i + 1)
       ELSE SelectIdx(s, keep, i + 1)

\* ------------------------------------------------------------- variables
VARIABLES events, reqs, last, now, served, gate, users

vars == << events, reqs, last, now, served, gate, users >>

Idle == [op |-> "idle"]
NoResponse == [op |-> "none", actor |-> "-", eid |-> 0, status |-> 0,
               target |-> "-", perms |-> "-", code |-> << >>,
               param |-> 0, data |-> {}, index |-> << >>, body |-> << >>,
   errors |-> << >>]

\* The response sent in the step just taken (res.status(..).json(..)), or
\* NoResponse when the step sent none.  eid is the event the handler found,
\* param the :eventId of the request path, data the events of a list, index
\* the :guestIndex or :expenseIndex of the request path, body the body of a
\* create, register or login request, errors the errors list of the envelope.
Response(op, actor, eid, status, target, perms) ==
  [op |-> op, actor |-> actor, eid |-> eid, status |-> status,
   target |-> target, perms |-> perms, code |-> << >>,
   param |-> 0, data |-> {}, index |-> << >>, body |-> << >>,
   errors |-> << >>]

\* The response of a handler whose path carries :eventId.
EventResponse(op, actor, param, eid, status, target, perms) ==
  [Response(op, actor, eid, status, target, perms) EXCEPT !.param = param]

\* The response of a handler whose path carries :eventId and an index.
IndexResponse(op, actor, param, eid, status, index) ==
  [EventResponse(op, actor, param, eid, status, "-", "-") EXCEPT !.index = index]

\* The response to a join request, with the invite code the request carried.
JoinResponse(actor, eid, status, code) ==
  [Response("join", actor, eid, status, "-", "-") EXCEPT !.code = code]

EventIds == 1..Len(events)
FreeSlots == { s \in Slots : reqs[s].op = "idle" }
Busy == Slots \ FreeSlots

\* A new request takes the lowest free slot, while the number of requests
\* received stays within the bound.
CanStart(s) == s \in FreeSlots /\ \A t \in FreeSlots : s <= t

\* What a handler has decided when it reaches its first `await` after the
\* read: the response it sends without saving, or the save it is about to do.
Respond(resp) == [respond |-> TRUE, resp |-> resp]
Save(req) == [respond |-> FALSE, req |-> req]

\* ------------------------------------------------------- Event methods
\* isMember comparing the ids themselves instead of their strings.
isMember_NoToString(doc, userId) ==
  \E i \in 1..Len(doc.members) : StrictEquals(doc.members[i].user, userId)

\* eventSchema.methods.isMember
isMember(doc, userId) ==
  \E i \in 1..Len(doc.members) :
    StrictEquals(toString(doc.members[i].user), toString(userId))

\* A member schema that would store the key `permission` of the pushed object
\* as the permissions of the member.
castMember_KeepsPermission(obj) ==
  [user |-> obj.user,
   role |-> IF "role" \in DOMAIN obj THEN obj.role ELSE RoleDefault,
   permissions |-> IF "permission" \in DOMAIN obj THEN obj.permission ELSE PermissionsDefault,
   joinedAt |-> IF "joinedAt" \in DOMAIN obj THEN obj.joinedAt ELSE now]

\* The subdocument members.push() stores: the schema is strict, so the key
\* `permission` that addMember passes is not a path of the member schema and
\* is dropped, and `permissions` takes its default.
castMember(obj) ==
  [user |-> obj.user,
   role |-> IF "role" \in DOMAIN obj THEN obj.role ELSE RoleDefault,
   permissions |-> IF "permissions" \in DOMAIN obj THEN obj.permissions ELSE PermissionsDefault,
   joinedAt |-> IF "joinedAt" \in DOMAIN obj THEN obj.joinedAt ELSE now]

\* eventSchema.methods.addMember: [added, members]
addMember(doc, userId, role, permission) ==
  IF ~ \E i \in 1..Len(doc.members) :
         StrictEquals(toString(doc.members[i].user), toString(userId))
  THEN [added |-> TRUE,
        members |-> Append(doc.members,
                           castMember([user |-> userId, role |-> role,
                                       permission |-> permission, joinedAt |-> now]))]
  ELSE [added |-> FALSE, members |-> doc.members]

\* A filter that would keep every member.
removeMember_Nobody(doc, userId) == doc.members

\* eventSchema.methods.removeMember
removeMember(doc, userId) ==
  SelectIdx(doc.members,
            [i \in 1..Len(doc.members) |->
               ~ StrictEquals(toString(doc.members[i].user), toString(userId))],
            1)

\* Schema validation of a members array on save.
validMembers(ms) ==
  \A i \in 1..Len(ms) : ms[i].permissions \in PermissionsEnum /\ ms[i].role \in RoleEnum

\* ---------------------------------------------------------- access gates
\* req.userMember: the member entry requireEventMember attached to the
\* request, or undefined.
Undefined == [type |-> "undefined"]
MemberInputs ==
  {Undefined} \cup [user : { ObjectId(u) : u \in Users }, role : RoleEnum,
                    permissions : PermissionsEnum \cup {"owner"}, joinedAt : 0..MaxTime]

\* What a gate does with the request: it answers 403 and returns, or it calls
\* next().
Deny == [status |-> 403, next |-> FALSE]
Allow == [status |-> 0, next |-> TRUE]
NoOutcome == [status |-> 0, next |-> FALSE]
NoGate == [name |-> "-", userMember |-> Undefined, outcome |-> NoOutcome]

requireOwner(userMember) ==
  IF userMember = Undefined THEN Deny
  ELSE IF userMember.permissions # "owner" THEN Deny
  ELSE Allow

\* requireOwnerOrAdmin denying when the permission differs from either value.
requireOwnerOrAdmin_EitherDiffers(userMember) ==
  IF userMember = Undefined THEN Deny
  ELSE IF userMember.permissions # "owner" \/ userMember.permissions # "admin" THEN Deny
  ELSE Allow

requireOwnerOrAdmin(userMember) ==
  IF userMember = Undefined THEN Deny
  ELSE IF userMember.permissions # "owner" /\ userMember.permissions # "admin" THEN Deny
  ELSE Allow

requireCollaborator(userMember) ==
  IF userMember = Undefined THEN Deny
  ELSE IF userMember.permissions = "pending_approval" THEN Deny
  ELSE Allow

blockPendingUsers(userMember) ==
  IF userMember # Undefined
  THEN IF userMember.permissions = "pending_approval" THEN Deny ELSE Allow
  ELSE Allow

\* --------------------------------------------------------------- queries
\* Event.findOne({ inviteCode, isActive: true })
findByInviteCode(code) ==
  { e \in EventIds : events[e].inviteCode = code /\ events[e].isActive }

\* The member query without its isActive condition.
findForMember_AnyState(e, userId) ==
  e \in EventIds
  /\ \E i \in 1..Len(events[e].members) : events[e].members[i].user.hex = userId.hex

\* Event.findOne({ _id, "members.user": userId, isActive: true })
findForMember(e, userId) ==
  e \in EventIds /\ events[e].isActive
  /\ \E i \in 1..Len(events[e].members) : events[e].members[i].user.hex = userId.hex

\* Event.findOne({ _id, createdBy: userId, isActive: true })
findForCreator(e, userId) ==
  e \in EventIds /\ events[e].isActive /\ events[e].createdBy.hex = userId.hex

\* Event.findOne({ _id, isActive: true })
findActive(e) == e \in EventIds /\ events[e].isActive

\* ------------------------------------------------- POST /create
\* String.prototype.trim() on a string of characters.
RECURSIVE trimEnd(_)
trimEnd(s) == IF Len(s) > 0 /\ s[Len(s)] = " " THEN trimEnd(SubSeq(s, 1, Len(s) - 1)) ELSE s
RECURSIVE trimStart(_)
trimStart(s) == IF Len(s) > 0 /\ s[1] = " " THEN trimStart(Tail(s)) ELSE s
trim(s) == trimEnd(trimStart(s))

EventTypeEnum == {"wedding", "engagement", "anniversary", "other"}

\* The dates among the inputs that are ISO 8601.
ISO8601Dates == {"2027-06-01"}

\* The bodies of a create request: names of no, one and two characters, with
\* and without white space around them, a type of the enum and one outside
\* it, a date and a text that is none.
CreateBodies ==
  [name : { << >>, << "a" >>, << "a", "b" >>, << " ", "a" >>, << " ", "a", "b", " " >> },
   eventType : {"wedding", "party"},
   eventDate : {"2027-06-01", "someday"}]

\* A validator chain that would not check the event type.
createInvalid_NameOnly(body) ==
  \/ Len(trim(body.name)) < 2
  \/ body.eventDate \notin ISO8601Dates

\* The express-validator chain of the route: validationResult is not empty.
createInvalid(body) ==
  \/ Len(trim(body.name)) < 2
  \/ body.eventType \notin EventTypeEnum
  \/ body.eventDate \notin ISO8601Dates

\* Up to `await event.save()`: validation, then the new document.
createHandler(u, valid) ==
  IF ~ valid
  THEN Respond(Response("create", u, 0, 400, "-", "-"))
  ELSE Save([op |-> "create", actor |-> u, eid |-> 0, param |-> 0, pc |-> "generate",
             inviteCode |-> NoCode,
             doc |-> [createdBy |-> reqUserId(u),
                      members |-> << castMember(
                         [user |-> reqUserId(u),
                          role |-> IF Gender[u] = "female" THEN "bride" ELSE "groom",
                          permissions |-> "admin",
                          joinedAt |-> now]) >>,
                      inviteCode |-> NoCode,
                      isActive |-> TRUE,
                      guests |-> << >>,
                      expenses |-> << >>,
                      vendors |-> << >>,
                      seating |-> SeatingDefault(now),
                      settings |-> SettingsDefault,
                      updatedAt |-> now,
                      v |-> 0]])

\* One turn of the loop of the pre-save hook: draw a code, look it up.
preSaveInviteCode(draw) ==
  LET inviteCode == generateInviteCode(draw)
      existingEvent == { e \in EventIds : events[e].inviteCode = inviteCode }
  IN [isUnique |-> existingEvent = {}, inviteCode |-> inviteCode]

\* The insert: the unique index on inviteCode rejects a duplicate.
insertEvent(req) ==
  IF \E e \in EventIds : events[e].inviteCode = req.doc.inviteCode
  THEN [events |-> events, resp |-> Response("create", req.actor, 0, 500, "-", "-")]
  ELSE [events |-> Append(events, [req.doc EXCEPT !.updatedAt = now]),
        resp |-> Response("create", req.actor, Len(events) + 1, 201, "-", "-")]

\* ------------------------------------------------- POST /join
joinHandler(u, inviteCode) ==
  LET userId == reqUserId(u)
      found == findByInviteCode(toUpperCase(inviteCode))
  IN IF Len(inviteCode) # CodeLength
     THEN Respond(JoinResponse(u, 0, 400, inviteCode))
     ELSE IF found = {}
     THEN Respond(JoinResponse(u, 0, 404, inviteCode))
     ELSE LET e == CHOOSE x \in found : TRUE
              event == events[e]
              res == addMember(event, userId, "guest", PermissionsDefault)
          IN IF isMember(event, userId)
             THEN Respond(JoinResponse(u, e, 200, inviteCode))
             ELSE IF ~ res.added
             THEN Respond(JoinResponse(u, e, 409, inviteCode))
             ELSE Save([op |-> "join", actor |-> u, eid |-> e, param |-> 0, pc |-> "save",
                        v |-> event.v, code |-> inviteCode,
                        delta |-> [kind |-> "push", path |-> "members",
                                   value |-> res.members[Len(res.members)]],
                        target |-> "-", perms |-> "-"])

\* ------------------------------------------------- PUT /:eventId/members/:userId/:perms
\* A loop without its condition: every member is assigned the permission.
matchingMembers_Everyone(event, userId) == 1..Len(event.members)

\* The indices of the members whose user is the :userId of the path.
matchingMembers(event, userId) ==
  { k \in 1..Len(event.members) :
      StrictEquals(toString(event.members[k].user), userId) }

\* The loop assigns perms to every matching member; an assignment of the
\* value a path already has does not mark the path modified, so save() sends
\* the paths whose value differs.
setPermissionHandler(actor, e, target, perms) ==
  IF ~ findActive(e)
  THEN Respond(EventResponse("set_permission", actor, e, 0, 404, target, perms))
  ELSE Save([op |-> "set_permission", actor |-> actor, eid |-> e, param |-> e, pc |-> "save",
             v |-> events[e].v,
             delta |-> [kind |-> "setPaths",
                        idx |-> { k \in matchingMembers(events[e], paramUserId(target)) :
                                    events[e].members[k].permissions # perms },
                        perms |-> perms],
             target |-> target, perms |-> perms])

\* ------------------------------------------------- PUT /:eventId
\* The body of an update is a record of the keys it carries: every key of the
\* body is assigned to the document.  NoPayload is a body without keys.
NoPayload == << >>
PayloadPerms == {"admin", "owner"}
MemberPayloads ==
  UNION { [1..n -> [user : Users, permissions : PayloadPerms]] : n \in 0..MaxPayloadMembers }
UpdatePayloads == {NoPayload} \cup { [members |-> m] : m \in MemberPayloads }

\* ------------------------------------------------- parseInt(string, 10)
\* A route parameter is a string of characters.  parseInt skips leading white
\* space, reads a sign, then the longest run of decimal digits, and ignores
\* what follows; it yields NaN when no digit was read.
DecimalDigits == << "0", "1", "2", "3", "4", "5", "6", "7", "8", "9" >>
IsDigit(c) == \E k \in 1..10 : DecimalDigits[k] = c
DigitValue(c) == (CHOOSE k \in 1..10 : DecimalDigits[k] = c) - 1

\* A JavaScript number that is an integer, or NaN.
Num(n) == [nan |-> FALSE, n |-> n]
NaN == [nan |-> TRUE, n |-> 0]
isNaN(x) == x.nan

RECURSIVE skipWhiteSpace(_, _)
skipWhiteSpace(s, i) ==
  IF i <= Len(s) /\ s[i] = " " THEN skipWhiteSpace(s, i + 1) ELSE i

\* The digits of s from position i on: their value and how many were read.
RECURSIVE readDigits(_, _, _, _)
readDigits(s, i, acc, read) ==
  IF i <= Len(s) /\ IsDigit(s[i])
  THEN readDigits(s, i + 1, acc * 10 + DigitValue(s[i]), read + 1)
  ELSE [value |-> acc, read |-> read]

parseInt(s) ==
  LET i == skipWhiteSpace(s, 1)
      signed == i <= Len(s) /\ s[i] \in {"-", "+"}
      d == readDigits(s, IF signed THEN i + 1 ELSE i, 0, 0)
  IN IF d.read = 0 THEN NaN
     ELSE IF signed /\ s[i] = "-" THEN Num(0 - d.value) ELSE Num(d.value)

\* Number(value) of a body value that passed isNumeric: a string of digits.
Number(value) == readDigits(value, 1, 0, 0).value

\* A number of a JSON body, and a string of digits of a JSON body.
JsonNumber(n) == [json |-> "number", n |-> n]
JsonString(text) == [json |-> "string", text |-> text]

\* The cast of a body value to the schema type Number.
castNumber(value) ==
  IF value.json = "number" THEN value.n ELSE Number(value.text)

\* The bodies of an update that carries the key budget: a number, and the
\* text of a number next to another key.
BudgetPayloads ==
  { [budget |-> JsonNumber(100)],
    [budget |-> JsonString(<< "2", "5", "0" >>), isActive |-> TRUE] }

\* A handler without the branch for budget: the key is assigned to the
\* document, where the schema has no such path.
pathOf_TopLevel(key) == key

\* The path an assignment of the handler writes: the key budget is written
\* to settings.budget, any other key to the path of its name.
pathOf(key) == IF key = "budget" THEN "settings.budget" ELSE key

\* The value the document holds after `event[key] = updates[key]`: the schema
\* casts it to the type of the path.
castField(key, value) ==
  IF key = "members"
  THEN [k \in 1..Len(value) |->
          castMember([user |-> ObjectId(value[k].user),
                      permissions |-> value[k].permissions])]
  ELSE IF key = "createdBy" THEN ObjectId(value)
  ELSE IF key = "budget" THEN castNumber(value)
  ELSE value

\* The keys of the body whose assignment marks a path modified: an array is
\* always replaced, another path is modified when its value changes.
modifiedKeys(event, payload) ==
  { key \in DOMAIN payload :
      IF key = "members" THEN TRUE
      ELSE IF pathOf(key) = "settings.budget"
           THEN castField(key, payload[key]) # event.settings.budget
      ELSE IF key \in DOMAIN event THEN castField(key, payload[key]) # event[key]
      ELSE FALSE }

updateEventHandler(actor, e, payload) ==
  IF ~ findForCreator(e, reqUserId(actor))
  THEN Respond(EventResponse("updateEvent", actor, e, 0, 404, "-", "-"))
  ELSE Save([op |-> "updateEvent", actor |-> actor, eid |-> e, param |-> e, pc |-> "save",
             v |-> events[e].v,
             delta |-> [kind |-> "update",
                        set |-> [path \in { pathOf(key) : key \in modifiedKeys(events[e], payload) } |->
                                   LET key == CHOOSE k \in modifiedKeys(events[e], payload) :
                                                pathOf(k) = path
                                   IN castField(key, payload[key])]],
             target |-> "-", perms |-> "-"])

\* ------------------------------------------------- DELETE /:eventId/leave
leaveHandler(u, e) ==
  LET userId == reqUserId(u)
  IN IF ~ findForMember(e, userId)
     THEN Respond(EventResponse("leave", u, e, 0, 404, "-", "-"))
     ELSE IF StrictEquals(toString(events[e].createdBy), userId)
     THEN Respond(EventResponse("leave", u, e, e, 400, "-", "-"))
     ELSE Save([op |-> "leave", actor |-> u, eid |-> e, param |-> e, pc |-> "save",
                v |-> events[e].v,
                delta |-> [kind |-> "setArray", path |-> "members",
                           value |-> removeMember(events[e], userId)],
                target |-> "-", perms |-> "-"])

\* ------------------------------------------------- DELETE /:eventId
\* A delete that would also empty the members of the event.
softDeleteHandler_DropsMembers(u, e) ==
  IF ~ findForCreator(e, reqUserId(u))
  THEN Respond(EventResponse("softDelete", u, e, 0, 404, "-", "-"))
  ELSE Save([op |-> "softDelete", actor |-> u, eid |-> e, param |-> e, pc |-> "save",
             v |-> events[e].v,
             delta |-> [kind |-> "update",
                        set |-> [isActive |-> FALSE, members |-> << >>]],
             target |-> "-", perms |-> "-"])

softDeleteHandler(u, e) ==
  IF ~ findForCreator(e, reqUserId(u))
  THEN Respond(EventResponse("softDelete", u, e, 0, 404, "-", "-"))
  ELSE Save([op |-> "softDelete", actor |-> u, eid |-> e, param |-> e, pc |-> "save",
             v |-> events[e].v,
             delta |-> [kind |-> "set", path |-> "isActive", value |-> FALSE],
             target |-> "-", perms |-> "-"])

\* ------------------------------------------------- GET /my-events/:userId
\* Event.find({ "members.user": userId, isActive: true }): the path names the
\* user whose events are listed.
myEventsHandler(actor, userId) ==
  Respond([Response("myEvents", actor, 0, 200, userId, "-")
             EXCEPT !.data = { e \in EventIds : findForMember(e, paramUserId(userId)) }])

\* ------------------------------------------------- GET /:eventId
getEventHandler(u, e) ==
  IF ~ findForMember(e, reqUserId(u))
  THEN Respond(EventResponse("getEvent", u, e, 0, 404, "-", "-"))
  ELSE Respond(EventResponse("getEvent", u, e, e, 200, "-", "-"))

\* ------------------------------------------------- POST /:eventId/guests
\* The names a guest body may carry; the empty name fails the validation.
GuestNames == {"", "Ann"}

addGuestHandler(u, e, name) ==
  LET userId == reqUserId(u)
  IN IF name = ""
     THEN Respond(EventResponse("addGuest", u, e, 0, 400, "-", "-"))
     ELSE IF ~ findForMember(e, userId)
     THEN Respond(EventResponse("addGuest", u, e, 0, 404, "-", "-"))
     ELSE Save([op |-> "addGuest", actor |-> u, eid |-> e, param |-> e, pc |-> "save",
                v |-> events[e].v,
                delta |-> [kind |-> "push", path |-> "guests",
                           value |-> [name |-> name, relation |-> "", dietary |-> "",
                                      rsvp |-> "Pending", email |-> "", phone |-> "",
                                      createdBy |-> userId, createdAt |-> now,
                                      updatedAt |-> now]],
                target |-> "-", perms |-> "-"])

\* `Number.isNaN(index) || index < 0 || index >= list.length`
invalidIndex(index, list) ==
  IF isNaN(index) THEN TRUE ELSE index.n < 0 \/ index.n >= Len(list)

\* The :guestIndex and :expenseIndex a request may carry.
IndexInputs ==
  { << "0" >>, << "1" >>, << "2" >>, << "-", "1" >>, << "x" >>, << "1", ".", "5" >> }

\* The indices of requests that overlap.
RaceIndexInputs == { << "0" >>, << "1" >> }

\* ------------------------------------------------- PUT /:eventId/guests/:guestIndex
RsvpEnum == {"Attending", "Not Attending", "Pending"}

\* The bodies of a guest update: an answer to the invitation, and a name that
\* the schema rejects.
GuestUpdates == { [rsvp |-> "Attending"], [name |-> ""] }

\* The express-validator chain of the route.
guestBodyInvalid(updates) ==
  "rsvp" \in DOMAIN updates /\ updates["rsvp"] \notin RsvpEnum

\* The paths of a sub-document that the assignments of the body and of
\* updatedAt mark modified: the ones whose value changes.
modifiedFields(row, updates) ==
  LET assigned == [k \in (DOMAIN updates \cap DOMAIN row) \cup {"updatedAt"} |->
                     IF k = "updatedAt" THEN now ELSE updates[k]]
  IN [k \in { f \in DOMAIN assigned : assigned[f] # row[f] } |-> assigned[k]]

updateGuestHandler(u, e, guestIndex, updates) ==
  LET userId == reqUserId(u)
      index == parseInt(guestIndex)
  IN IF guestBodyInvalid(updates)
     THEN Respond(IndexResponse("updateGuest", u, e, 0, 400, guestIndex))
     ELSE IF ~ findForMember(e, userId)
     THEN Respond(IndexResponse("updateGuest", u, e, 0, 404, guestIndex))
     ELSE IF invalidIndex(index, events[e].guests)
     THEN Respond(IndexResponse("updateGuest", u, e, e, 400, guestIndex))
     ELSE LET guest == events[e].guests[index.n + 1]
          IN Save([op |-> "updateGuest", actor |-> u, eid |-> e, param |-> e, pc |-> "save",
                   v |-> events[e].v, index |-> guestIndex, row |-> guest.name,
                   delta |-> [kind |-> "setItem", path |-> "guests", idx |-> index.n + 1,
                              set |-> modifiedFields(guest, updates)],
                   target |-> "-", perms |-> "-"])

\* ------------------------------------------------- DELETE /:eventId/guests/:guestIndex
\* list.splice(index): without a count, the list up to the index.
splice_ToTheEnd(list, index) ==
  SelectIdx(list, [k \in 1..Len(list) |-> k < index + 1], 1)

\* list.splice(index, 1): the list without the element at index (from 0).
splice(list, index) ==
  SelectIdx(list, [k \in 1..Len(list) |-> k # index + 1], 1)

deleteGuestHandler(u, e, guestIndex) ==
  LET userId == reqUserId(u)
      index == parseInt(guestIndex)
  IN IF ~ findForMember(e, userId)
     THEN Respond(IndexResponse("deleteGuest", u, e, 0, 404, guestIndex))
     ELSE IF invalidIndex(index, events[e].guests)
     THEN Respond(IndexResponse("deleteGuest", u, e, e, 400, guestIndex))
     ELSE Save([op |-> "deleteGuest", actor |-> u, eid |-> e, param |-> e, pc |-> "save",
                v |-> events[e].v, index |-> guestIndex,
                row |-> events[e].guests[index.n + 1].name,
                delta |-> [kind |-> "setArray", path |-> "guests",
                           value |-> splice(events[e].guests, index.n)],
                target |-> "-", perms |-> "-"])

\* ------------------------------------------------- PUT /:eventId/expenses/:expenseIndex
StatusEnum == {"planned", "booked", "paid", "completed"}

\* The bodies of an expense update: a status, and an amount as the text of a
\* number.
ExpenseUpdates == { [status |-> "paid"], [actual |-> << "7" >>] }

expenseBodyInvalid(updates) ==
  "status" \in DOMAIN updates /\ updates["status"] \notin StatusEnum

\* The body after the handler's conversions: Number() of the amounts.
expenseValues(updates) ==
  [k \in DOMAIN updates |->
     IF k \in {"budgeted", "actual"} THEN Number(updates[k]) ELSE updates[k]]

updateExpenseHandler(u, e, expenseIndex, updates) ==
  LET userId == reqUserId(u)
      index == parseInt(expenseIndex)
  IN IF expenseBodyInvalid(updates)
     THEN Respond(IndexResponse("updateExpense", u, e, 0, 400, expenseIndex))
     ELSE IF ~ findForMember(e, userId)
     THEN Respond(IndexResponse("updateExpense", u, e, 0, 404, expenseIndex))
     ELSE IF invalidIndex(index, events[e].expenses)
     THEN Respond(IndexResponse("updateExpense", u, e, e, 400, expenseIndex))
     ELSE LET expense == events[e].expenses[index.n + 1]
          IN Save([op |-> "updateExpense", actor |-> u, eid |-> e, param |-> e, pc |-> "save",
                   v |-> events[e].v, index |-> expenseIndex, row |-> expense.description,
                   delta |-> [kind |-> "setItem", path |-> "expenses", idx |-> index.n + 1,
                              set |-> modifiedFields(expense, expenseValues(updates))],
                   target |-> "-", perms |-> "-"])

\* ------------------------------------------------- DELETE /:eventId/expenses/:expenseIndex
deleteExpenseHandler(u, e, expenseIndex) ==
  LET userId == reqUserId(u)
      index == parseInt(expenseIndex)
  IN IF ~ findForMember(e, userId)
     THEN Respond(IndexResponse("deleteExpense", u, e, 0, 404, expenseIndex))
     ELSE IF invalidIndex(index, events[e].expenses)
     THEN Respond(IndexResponse("deleteExpense", u, e, e, 400, expenseIndex))
     ELSE Save([op |-> "deleteExpense", actor |-> u, eid |-> e, param |-> e, pc |-> "save",
                v |-> events[e].v, index |-> expenseIndex,
                row |-> events[e].expenses[index.n + 1].description,
                delta |-> [kind |-> "setArray", path |-> "expenses",
                           value |-> splice(events[e].expenses, index.n)],
                target |-> "-", perms |-> "-"])

\* ------------------------------------------------- PUT /:eventId/vendors/:vendorId
\* The :vendorId a request may carry: the ids of two vendors, and an id that
\* no vendor has.
VendorIds == {"v1", "v2", "v9"}

VendorStatusEnum == {"considering", "contacted", "quoted", "selected", "rejected"}
PricingTypeEnum == {"fixed", "per_person", "range"}
NestedKeys == {"contactInfo", "pricing"}

\* The bodies of a vendor update: one sub-field of contactInfo, one sub-field
\* of pricing next to a plain field, and a plain field alone.
VendorUpdates ==
  { [contactInfo |-> [phone |-> "555"]],
    [pricing |-> [amount |-> 10], notes |-> "call" ],
    [status |-> "selected"] }

\* The express-validator chain of the route.
vendorBodyInvalid(updates) ==
  \/ "status" \in DOMAIN updates /\ updates["status"] \notin VendorStatusEnum
  \/ /\ "pricing" \in DOMAIN updates /\ "type" \in DOMAIN updates["pricing"]
     /\ updates["pricing"]["type"] \notin PricingTypeEnum

\* event.vendors.id(vendorId): the id is cast to an ObjectId and compared with
\* the _id of each vendor; the position of the first that equals it, or 0.
id(vendors, vendorId) ==
  IF \E k \in 1..Len(vendors) : vendors[k]._id = ObjectId(vendorId)
  THEN CHOOSE k \in 1..Len(vendors) :
         /\ vendors[k]._id = ObjectId(vendorId)
         /\ \A j \in 1..(k - 1) : vendors[j]._id # ObjectId(vendorId)
  ELSE 0

\* A handler that would assign contactInfo and pricing like any other key.
assignVendor_WholeValue(vendor, updates) ==
  [f \in DOMAIN vendor |->
     IF f = "updatedAt" THEN now
     ELSE IF f \notin DOMAIN updates THEN vendor[f]
     ELSE IF f = "contactInfo"
          THEN [sf \in DOMAIN vendor[f] |->
                  IF sf \in DOMAIN updates[f] THEN updates[f][sf] ELSE ""]
          ELSE IF f = "pricing"
          THEN [sf \in DOMAIN vendor[f] |->
                  IF sf \in DOMAIN updates[f] THEN updates[f][sf]
                  ELSE IF sf = "type" THEN "fixed" ELSE 0]
          ELSE updates[f]]

\* The vendor after the assignments of the handler: sub-field by sub-field
\* for contactInfo and pricing, the whole value for any other key, and
\* updatedAt.
assignVendor(vendor, updates) ==
  [f \in DOMAIN vendor |->
     IF f = "updatedAt" THEN now
     ELSE IF f \notin DOMAIN updates THEN vendor[f]
     ELSE IF f \in NestedKeys
          THEN [sf \in DOMAIN vendor[f] |->
                  IF sf \in DOMAIN updates[f] THEN updates[f][sf] ELSE vendor[f][sf]]
          ELSE updates[f]]

\* The paths of the vendor that the assignments mark modified, with their
\* values: the fields, and the sub-fields of the nested keys, that change.
modifiedPaths(vendor, assigned) ==
  [f \in { g \in DOMAIN vendor : assigned[g] # vendor[g] } |->
     IF f \in NestedKeys
     THEN [sf \in { h \in DOMAIN vendor[f] : assigned[f][h] # vendor[f][h] } |->
             assigned[f][sf]]
     ELSE assigned[f]]

updateVendorHandler(u, e, vendorId, updates) ==
  LET userId == reqUserId(u)
  IN IF vendorBodyInvalid(updates)
     THEN Respond(EventResponse("updateVendor", u, e, 0, 400, vendorId, "-"))
     ELSE IF ~ findForMember(e, userId)
     THEN Respond(EventResponse("updateVendor", u, e, 0, 404, vendorId, "-"))
     ELSE IF id(events[e].vendors, vendorId) = 0
     THEN Respond(EventResponse("updateVendor", u, e, e, 404, vendorId, "-"))
     ELSE LET k == id(events[e].vendors, vendorId)
              vendor == events[e].vendors[k]
          IN Save([op |-> "updateVendor", actor |-> u, eid |-> e, param |-> e, pc |-> "save",
                   v |-> events[e].v,
                   delta |-> [kind |-> "setNested", path |-> "vendors", idx |-> k,
                              set |-> modifiedPaths(vendor, assignVendor(vendor, updates))],
                   target |-> vendorId, perms |-> "-"])

\* ------------------------------------------------- DELETE /:eventId/vendors/:vendorId
deleteVendorHandler(u, e, vendorId) ==
  LET userId == reqUserId(u)
  IN IF ~ findForMember(e, userId)
     THEN Respond(EventResponse("deleteVendor", u, e, 0, 404, vendorId, "-"))
     ELSE IF id(events[e].vendors, vendorId) = 0
     THEN Respond(EventResponse("deleteVendor", u, e, e, 404, vendorId, "-"))
     ELSE Save([op |-> "deleteVendor", actor |-> u, eid |-> e, param |-> e, pc |-> "save",
                v |-> events[e].v,
                delta |-> [kind |-> "pull", path |-> "vendors", id |-> vendorId],
                target |-> vendorId, perms |-> "-"])

\* ------------------------------------------------- PUT /:eventId/settings
\* The bodies of a settings update: a key of the settings, and a key the
\* settings do not have.
SettingsPayloads == { [budget |-> 100], [guestListAccess |-> TRUE, theme |-> "dark"] }

\* A handler that would assign the body to event.settings as a whole: the
\* keys the body lacks go back to their defaults.
updateSettingsHandler_Replaces(u, e, payload) ==
  IF ~ findForCreator(e, reqUserId(u))
  THEN Respond(EventResponse("updateSettings", u, e, 0, 404, "-", "-"))
  ELSE Save([op |-> "updateSettings", actor |-> u, eid |-> e, param |-> e, pc |-> "save",
             v |-> events[e].v,
             delta |-> [kind |-> "setSettings",
                        set |-> [k \in DOMAIN SettingsDefault |->
                                   IF k \in DOMAIN payload THEN payload[k]
                                   ELSE SettingsDefault[k]]],
             target |-> "-", perms |-> "-"])

updateSettingsHandler(u, e, payload) ==
  IF ~ findForCreator(e, reqUserId(u))
  THEN Respond(EventResponse("updateSettings", u, e, 0, 404, "-", "-"))
  ELSE LET settings == events[e].settings
       IN Save([op |-> "updateSettings", actor |-> u, eid |-> e, param |-> e, pc |-> "save",
                v |-> events[e].v,
                delta |-> [kind |-> "setSettings",
                           set |-> [key \in { k \in DOMAIN payload \cap DOMAIN settings :
                                                payload[k] # settings[k] } |-> payload[key]]],
                target |-> "-", perms |-> "-"])

\* ------------------------------------------------- PUT /:eventId/seating
\* The value null.
Null == [null |-> TRUE]

\* The guests and the table group a seating body may name.
SeatGuest(guestId, guestName) == [id |-> guestId, name |-> guestName]
SeatGroup == [id |-> "t1", name |-> "family", color |-> "red", tables |-> << >>]

\* The seatingData of a request: two complete snapshots, one that carries
\* totalGuests only, and one whose guest has no name.
SeatingPayloads ==
  { [totalGuests |-> 1, guestPool |-> << SeatGuest("g1", "Ann") >>, tableGroups |-> << >>],
    [totalGuests |-> 2, guestPool |-> << SeatGuest("g1", "Ann"), SeatGuest("g2", "Bob") >>,
     tableGroups |-> << SeatGroup >>],
    [totalGuests |-> 3],
    [totalGuests |-> 4, guestPool |-> << [id |-> "g3"] >>, tableGroups |-> << >>] }

\* An element of seating.guestPool as the schema casts it: the keys of the
\* body and the defaults of the others.
castSeatGuest(g) ==
  [id |-> IF "id" \in DOMAIN g THEN g.id ELSE "",
   name |-> IF "name" \in DOMAIN g THEN g.name ELSE "",
   isPlaceholder |-> IF "isPlaceholder" \in DOMAIN g THEN g.isPlaceholder ELSE FALSE,
   tableId |-> IF "tableId" \in DOMAIN g THEN g.tableId ELSE Null,
   relation |-> IF "relation" \in DOMAIN g THEN g.relation ELSE "",
   dietary |-> IF "dietary" \in DOMAIN g THEN g.dietary ELSE ""]

\* `{ ...seatingData, lastUpdated: new Date() }` assigned to event.seating:
\* the nested path takes the keys of the object, and a key the object lacks
\* reads as its default.
castSeating(seatingData) ==
  [totalGuests |-> IF "totalGuests" \in DOMAIN seatingData THEN seatingData.totalGuests ELSE 0,
   guestPool |-> IF "guestPool" \in DOMAIN seatingData
                 THEN [k \in 1..Len(seatingData.guestPool) |->
                         castSeatGuest(seatingData.guestPool[k])]
                 ELSE << >>,
   tableGroups |-> IF "tableGroups" \in DOMAIN seatingData THEN seatingData.tableGroups
                   ELSE << >>,
   lastUpdated |-> now]

\* An assignment that would set the keys of the body one by one and keep
\* the stored value of the others.
saveSeatingHandler_Merges(u, e, seatingData) ==
  IF ~ findForMember(e, reqUserId(u))
  THEN Respond([EventResponse("saveSeating", u, e, 0, 404, "-", "-")
                  EXCEPT !.body = seatingData])
  ELSE Save([op |-> "saveSeating", actor |-> u, eid |-> e, param |-> e, pc |-> "save",
             v |-> events[e].v, body |-> seatingData,
             delta |-> [kind |-> "setSeating",
                        value |-> [k \in DOMAIN events[e].seating |->
                                     IF k \in DOMAIN seatingData \/ k = "lastUpdated"
                                     THEN castSeating(seatingData)[k]
                                     ELSE events[e].seating[k]]],
             target |-> "-", perms |-> "-"])

saveSeatingHandler(u, e, seatingData) ==
  IF ~ findForMember(e, reqUserId(u))
  THEN Respond([EventResponse("saveSeating", u, e, 0, 404, "-", "-")
                  EXCEPT !.body = seatingData])
  ELSE Save([op |-> "saveSeating", actor |-> u, eid |-> e, param |-> e, pc |-> "save",
             v |-> events[e].v, body |-> seatingData,
             delta |-> [kind |-> "setSeating", value |-> castSeating(seatingData)],
             target |-> "-", perms |-> "-"])

\* ------------------------------------------------- event.save()
\* Validation of the modified paths against the schema, before the write.
validationFails(delta) ==
  \/ delta.kind = "setPaths" /\ delta.idx # {} /\ delta.perms \notin PermissionsEnum
  \/ delta.kind = "setArray" /\ delta.path = "members" /\ ~ validMembers(delta.value)
  \/ delta.kind = "setItem" /\ "name" \in DOMAIN delta.set /\ delta.set["name"] = ""
  \/ delta.kind = "update" /\ "members" \in DOMAIN delta.set /\ ~ validMembers(delta.set["members"])
  \/ delta.kind = "setSeating" /\ \E k \in 1..Len(delta.value.guestPool) :
                                     delta.value.guestPool[k].id = "" \/ delta.value.guestPool[k].name = ""

\* The unique index on inviteCode rejects an update that gives the event the
\* code of another stored event.
duplicateKey(eid, delta) ==
  /\ delta.kind = "update" /\ "inviteCode" \in DOMAIN delta.set
  /\ \E e \in EventIds \ {eid} : events[e].inviteCode = delta.set["inviteCode"]

\* Every update carries the loaded version in its filter, as under the
\* schema option optimisticConcurrency.
versionWhere_EveryWrite(delta) == delta.kind # "none"

\* The update carries { __v: <loaded version> } in its filter when a path
\* inside an array, or a whole array, is $set.
versionWhere(delta) ==
  \/ delta.kind = "setPaths" /\ delta.idx # {}
  \/ delta.kind = "setArray"
  \/ delta.kind \in {"setItem", "setNested"} /\ DOMAIN delta.set # {}
  \/ delta.kind = "update" /\ "members" \in DOMAIN delta.set

\* The update increments __v when it may move array elements: $push, and
\* $set of a whole array.
versionInc(delta) ==
  \/ delta.kind \in {"push", "setArray", "pull"}
  \/ delta.kind = "update" /\ "members" \in DOMAIN delta.set

\* $set of paths `list.N.field`: the element at N takes the fields; a list
\* shorter than N is padded with null up to the new element.
setItem(list, delta) ==
  IF DOMAIN delta.set = {} THEN list
  ELSE [k \in 1..(IF delta.idx > Len(list) THEN delta.idx ELSE Len(list)) |->
          IF k = delta.idx
          THEN IF k <= Len(list)
               THEN [f \in DOMAIN list[k] |->
                       IF f \in DOMAIN delta.set THEN delta.set[f] ELSE list[k][f]]
               ELSE delta.set
          ELSE IF k <= Len(list) THEN list[k] ELSE Null]

\* $set of paths `list.N.field` and `list.N.field.subfield` of the element at
\* N, which the version filter has shown to be in place.
setNested(list, delta) ==
  [k \in 1..Len(list) |->
     IF k # delta.idx THEN list[k]
     ELSE [f \in DOMAIN list[k] |->
             IF f \notin DOMAIN delta.set THEN list[k][f]
             ELSE IF f \in NestedKeys
                  THEN [sf \in DOMAIN list[k][f] |->
                          IF sf \in DOMAIN delta.set[f] THEN delta.set[f][sf]
                          ELSE list[k][f][sf]]
                  ELSE delta.set[f]]]

\* The stored document after the update operators of delta are applied; the
\* pre-save hook stamps updatedAt on every save.
applyDelta(stored, delta) ==
  LET d1 == CASE delta.kind = "push" /\ delta.path = "members" ->
                   [stored EXCEPT !.members = Append(stored.members, delta.value)]
              [] delta.kind = "push" /\ delta.path = "guests" ->
                   [stored EXCEPT !.guests = Append(stored.guests, delta.value)]
              [] delta.kind = "setArray" ->
                   [stored EXCEPT ![delta.path] = delta.value]
              [] delta.kind = "setItem" ->
                   [stored EXCEPT ![delta.path] = setItem(stored[delta.path], delta)]
              [] delta.kind = "setPaths" ->
                   [stored EXCEPT !.members =
                      [k \in 1..Len(stored.members) |->
                         IF k \in delta.idx
                         THEN [stored.members[k] EXCEPT !.permissions = delta.perms]
                         ELSE stored.members[k]]]
              [] delta.kind = "setNested" ->
                   [stored EXCEPT ![delta.path] = setNested(stored[delta.path], delta)]
              [] delta.kind = "pull" ->
                   [stored EXCEPT ![delta.path] =
                      SelectIdx(stored[delta.path],
                                [k \in 1..Len(stored[delta.path]) |->
                                   stored[delta.path][k]._id # ObjectId(delta.id)],
                                1)]
              [] delta.kind = "set" ->
                   [stored EXCEPT !.isActive = delta.value]
              [] delta.kind = "setSeating" ->
                   [stored EXCEPT !.seating = delta.value]
              [] delta.kind = "setSettings" ->
                   [stored EXCEPT !.settings =
                      [k \in DOMAIN stored.settings |->
                         IF k \in DOMAIN delta.set THEN delta.set[k] ELSE stored.settings[k]]]
              [] delta.kind = "update" ->
                   [f \in DOMAIN stored |->
                      IF f \in DOMAIN delta.set THEN delta.set[f]
                      ELSE IF f = "settings" /\ "settings.budget" \in DOMAIN delta.set
                           THEN [stored.settings EXCEPT !.budget = delta.set["settings.budget"]]
                      ELSE stored[f]]
              [] OTHER -> stored
      d2 == [d1 EXCEPT !.updatedAt = now]
  IN IF versionInc(delta) THEN [d2 EXCEPT !.v = stored.v + 1] ELSE d2

\* The status of the response a handler sends after its save.
successStatus(op) == IF op \in {"addGuest"} THEN 201 ELSE 200

\* A save that would send its changes to every stored event (an update
\* without the _id of the loaded document in its filter).
saveEvent_EveryDocument(req) ==
  LET stored == events[req.eid]
      failed == \/ validationFails(req.delta)
                \/ versionWhere(req.delta) /\ stored.v # req.v
                \/ duplicateKey(req.eid, req.delta)
  IN [events |-> IF failed THEN events
                 ELSE [e \in EventIds |-> applyDelta(events[e], req.delta)],
      resp |-> [EventResponse(req.op, req.actor, req.param, req.eid,
                              IF failed THEN 500 ELSE successStatus(req.op),
                              req.target, req.perms)
                  EXCEPT !.code = IF req.op = "join" THEN req.code ELSE << >>,
                         !.index = IF "index" \in DOMAIN req THEN req.index ELSE << >>,
                         !.body = IF "body" \in DOMAIN req THEN req.body ELSE << >>]]

\* save() of a loaded document, and the response that follows it: 500 from
\* the catch block when save() throws.
saveEvent(req) ==
  LET stored == events[req.eid]
      failed == \/ validationFails(req.delta)
                \/ versionWhere(req.delta) /\ stored.v # req.v
                \/ duplicateKey(req.eid, req.delta)
  IN [events |-> IF failed THEN events
                 ELSE [events EXCEPT ![req.eid] = applyDelta(stored, req.delta)],
      resp |-> [EventResponse(req.op, req.actor, req.param, req.eid,
                              IF failed THEN 500 ELSE successStatus(req.op),
                              req.target, req.perms)
                  EXCEPT !.code = IF req.op = "join" THEN req.code ELSE << >>,
                         !.index = IF "index" \in DOMAIN req THEN req.index ELSE << >>,
                         !.body = IF "body" \in DOMAIN req THEN req.body ELSE << >>]]

\* ------------------------------------------------- POST /register, POST /login
MaxUsers == 2

\* isEmail: a local part, the sign @ and a domain.
isEmail(value) == \E i \in 2..(Len(value) - 1) : value[i] = "@"

\* normalizeEmail: the address in lower case.
normalizeEmail(value) == toLowerCase(value)

\* bcrypt.hash of a password: a value from which the password is not read.
hash(password) == [bcrypt |-> password]

\* bcrypt.compare
compare(candidatePassword, stored) == stored = hash(candidatePassword)

\* The bodies of a register request: an address in lower and in upper case
\* and a text that is no address, a password of six characters and one of
\* two, a confirmation that repeats the password or not, and a gender of the
\* enum or outside it.
RegisterBodies ==
  [name : { << "A", "l" >> },
   email : { << "a", "@", "x" >>, << "A", "@", "x" >>, << "a", "x" >> },
   password : { << "s", "e", "c", "r", "e", "t" >>, << "p", "w" >> },
   confirmPassword : { << "s", "e", "c", "r", "e", "t" >>, << "p", "w" >> },
   gender : {"female", "other"}]

\* The bodies of a login request.
LoginBodies ==
  [email : { << "a", "@", "x" >>, << "A", "@", "x" >>, << "a", "x" >> },
   password : { << "s", "e", "c", "r", "e", "t" >>, << "p", "w" >>, << >> }]

\* One entry of errors.array(): the field, the value the request carried
\* for it, and the message of the validator.
FieldError(path, value, msg) == [path |-> path, value |-> value, msg |-> msg]

\* The entries of a list of entries-or-nothing, in order.
RECURSIVE Flatten(_)
Flatten(ss) == IF ss = << >> THEN << >> ELSE Head(ss) \o Flatten(Tail(ss))

\* validationResult(req).array() of POST /register, in the order of the
\* chain.
registerErrors(body) ==
  Flatten(<<
    IF Len(trim(body.name)) < 2
    THEN << FieldError("name", trim(body.name), "Name must be at least 2 characters long") >>
    ELSE << >>,
    IF ~ isEmail(body.email)
    THEN << FieldError("email", body.email, "Please provide a valid email") >>
    ELSE << >>,
    IF Len(body.password) < 6
    THEN << FieldError("password", body.password,
                       "Password must be at least 6 characters long") >>
    ELSE << >>,
    IF body.confirmPassword # body.password
    THEN << FieldError("confirmPassword", body.confirmPassword,
                       "Password confirmation does not match password") >>
    ELSE << >>,
    IF body.gender \notin {"male", "female"}
    THEN << FieldError("gender", body.gender, "Please select a valid gender option") >>
    ELSE << >> >>)

\* validationResult(req).array() of POST /login.
loginErrors(body) ==
  Flatten(<<
    IF ~ isEmail(body.email)
    THEN << FieldError("email", body.email, "Please provide a valid email") >>
    ELSE << >>,
    IF Len(body.password) = 0
    THEN << FieldError("password", body.password, "Password is required") >>
    ELSE << >> >>)

\* User.findOne({ email }): the positions of the stored users with the
\* address.
findOneUser(email) == { k \in 1..Len(users) : users[k].email = email }

\* userSchema.methods.toJSON: the document without its password.
toJSON(user) == [f \in DOMAIN user \ {"password"} |-> user[f]]

\* The response of an authentication route: its status, the errors list of a
\* validation failure, the body of the request, and data.user of a success.
AuthResponse(op, body, status, errors, data) ==
  [Response(op, "-", 0, status, "-", "-") EXCEPT
     !.body = body, !.errors = errors, !.data = data]

\* POST /register up to `await user.save()`.
registerHandler(body) ==
  LET errors == registerErrors(body)
      email == normalizeEmail(body.email)
  IN IF errors # << >>
     THEN Respond(AuthResponse("register", body, 400, errors, {}))
     ELSE IF findOneUser(email) # {}
     THEN Respond(AuthResponse("register", body, 409, << >>, {}))
     ELSE Save([op |-> "register", pc |-> "save", body |-> body,
                doc |-> [name |-> body.name, email |-> email,
                         password |-> body.password, gender |-> body.gender,
                         createdAt |-> now, updatedAt |-> now]])

\* user.save() of a new user and what follows it: the pre-save hooks hash
\* the password and stamp updatedAt; the unique index on email rejects the
\* insert of an address that is stored, and the catch block answers 500.
insertUser(req) ==
  LET user == [req.doc EXCEPT !.password = hash(req.doc.password), !.updatedAt = now]
  IN IF \E k \in 1..Len(users) : users[k].email = user.email
     THEN [users |-> users,
           resp |-> AuthResponse("register", req.body, 500, << >>, {})]
     ELSE [users |-> Append(users, user),
           resp |-> AuthResponse("register", req.body, 201, << >>, { toJSON(user) })]

\* POST /login
loginHandler(body) ==
  LET errors == loginErrors(body)
      found == findOneUser(normalizeEmail(body.email))
  IN IF errors # << >>
     THEN AuthResponse("login", body, 400, errors, {})
     ELSE IF found = {}
     THEN AuthResponse("login", body, 401, << >>, {})
     ELSE LET user == users[CHOOSE k \in found : \A j \in found : k <= j]
          IN IF ~ compare(body.password, user.password)
             THEN AuthResponse("login", body, 401, << >>, {})
             ELSE AuthResponse("login", body, 200, << >>, { toJSON(user) })

\* -------------------------------------------------------------- actions
Init ==
  /\ events = << >>
  /\ reqs = [s \in Slots |-> Idle]
  /\ last = NoResponse
  /\ now = 0
  /\ served = 0
  /\ gate = NoGate
  /\ users = << >>

\* Time passes between statements; Date.now() and new Date() read `now`.
Tick ==
  /\ now < MaxTime
  /\ now' = now + 1
  /\ last' = NoResponse
  /\ UNCHANGED << gate, users, events, reqs, served >>

Receive ==
  /\ served < MaxRequests
  /\ served' = served + 1

\* A handler that runs from its read to its response with no other request
\* in between.
Run(plan) ==
  /\ Busy = {}
  /\ Receive
  /\ IF plan.respond
     THEN events' = events /\ last' = plan.resp
     ELSE LET r == saveEvent(plan.req)
          IN events' = r.events /\ last' = r.resp
  /\ UNCHANGED << gate, users, reqs, now >>

\* A handler up to its save: other requests may run before Commit.
Begin(s, plan) ==
  /\ CanStart(s)
  /\ Receive
  /\ IF plan.respond
     THEN reqs' = reqs /\ last' = plan.resp
     ELSE reqs' = [reqs EXCEPT ![s] = plan.req] /\ last' = NoResponse
  /\ UNCHANGED << gate, users, events, now >>

Create(u, valid, draw) ==
  /\ Busy = {}
  /\ Receive
  /\ Len(events) < MaxEvents
  /\ LET plan == createHandler(u, valid)
         code == preSaveInviteCode(draw)
     IN IF plan.respond
        THEN events' = events /\ last' = plan.resp
        ELSE /\ code.isUnique
             /\ LET r == insertEvent([plan.req EXCEPT !.doc.inviteCode = code.inviteCode])
                IN events' = r.events /\ last' = r.resp
  /\ UNCHANGED << gate, users, reqs, now >>

\* POST /create with its body: the validators decide whether the handler
\* builds the document.
CreateEvent(u, body, draw) ==
  /\ Busy = {}
  /\ Receive
  /\ Len(events) < MaxEvents
  /\ LET plan == createHandler(u, ~ createInvalid(body))
         code == preSaveInviteCode(draw)
     IN IF plan.respond
        THEN events' = events /\ last' = [plan.resp EXCEPT !.body = body]
        ELSE /\ code.isUnique
             /\ LET r == insertEvent([plan.req EXCEPT !.doc.inviteCode = code.inviteCode])
                IN events' = r.events /\ last' = [r.resp EXCEPT !.body = body]
  /\ UNCHANGED << gate, users, reqs, now >>

Join(u, inviteCode) == Run(joinHandler(u, inviteCode))
SetPermission(actor, e, target, perms) == Run(setPermissionHandler(actor, e, target, perms))
UpdateEvent(actor, e, payload) == Run(updateEventHandler(actor, e, payload))
Leave(u, e) == Run(leaveHandler(u, e))
SoftDelete(u, e) == Run(softDeleteHandler(u, e))

AddGuest(u, e, name) == Run(addGuestHandler(u, e, name))
GetEvent(u, e) == Run(getEventHandler(u, e))
MyEvents(actor, userId) == Run(myEventsHandler(actor, userId))
UpdateSettings(u, e, payload) == Run(updateSettingsHandler(u, e, payload))

UpdateGuest(u, e, guestIndex, updates) == Run(updateGuestHandler(u, e, guestIndex, updates))
DeleteGuest(u, e, guestIndex) == Run(deleteGuestHandler(u, e, guestIndex))
UpdateExpense(u, e, expenseIndex, updates) ==
  Run(updateExpenseHandler(u, e, expenseIndex, updates))
DeleteExpense(u, e, expenseIndex) == Run(deleteExpenseHandler(u, e, expenseIndex))

UpdateVendor(u, e, vendorId, updates) == Run(updateVendorHandler(u, e, vendorId, updates))
DeleteVendor(u, e, vendorId) == Run(deleteVendorHandler(u, e, vendorId))

\* The events stored and the create requests in flight.
EventsAndCreates == Len(events) + Cardinality({ t \in Slots : reqs[t].op = "create" })

BeginCreate(s, u, valid) ==
  /\ EventsAndCreates < MaxEvents
  /\ Begin(s, createHandler(u, valid))

\* One turn of `while (!isUnique)`: the local inviteCode takes the code drawn,
\* and the loop ends when no stored event has it.
GenerateCode(s, draw) ==
  /\ reqs[s].op = "create" /\ reqs[s].pc = "generate"
  /\ LET code == preSaveInviteCode(draw)
     IN IF code.isUnique
        THEN reqs' = [reqs EXCEPT ![s].inviteCode = code.inviteCode,
                                  ![s].doc.inviteCode = code.inviteCode,
                                  ![s].pc = "save"]
        ELSE reqs' = [reqs EXCEPT ![s].inviteCode = code.inviteCode]
  /\ last' = NoResponse
  /\ UNCHANGED << gate, users, events, now, served >>

CommitCreate(s) ==
  /\ reqs[s].op = "create" /\ reqs[s].pc = "save"
  /\ LET r == insertEvent(reqs[s])
     IN events' = r.events /\ last' = r.resp
  /\ reqs' = [reqs EXCEPT ![s] = Idle]
  /\ UNCHANGED << gate, users, now, served >>

BeginJoin(s, u, inviteCode) == Begin(s, joinHandler(u, inviteCode))
BeginLeave(s, u, e) == Begin(s, leaveHandler(u, e))
BeginSoftDelete(s, u, e) == Begin(s, softDeleteHandler(u, e))
BeginUpdateEvent(s, u, e, payload) == Begin(s, updateEventHandler(u, e, payload))

BeginAddGuest(s, u, e, name) == Begin(s, addGuestHandler(u, e, name))
BeginUpdateGuest(s, u, e, guestIndex, updates) ==
  Begin(s, updateGuestHandler(u, e, guestIndex, updates))
BeginDeleteGuest(s, u, e, guestIndex) == Begin(s, deleteGuestHandler(u, e, guestIndex))
BeginUpdateExpense(s, u, e, expenseIndex, updates) ==
  Begin(s, updateExpenseHandler(u, e, expenseIndex, updates))
BeginDeleteExpense(s, u, e, expenseIndex) ==
  Begin(s, deleteExpenseHandler(u, e, expenseIndex))

\* A create request while the stored events are no more than the codes that
\* can be drawn: the last of them finds every code taken.
BeginCreateCode(s, u, valid) ==
  /\ EventsAndCreates <= NumDraws
  /\ Begin(s, createHandler(u, valid))

Commit(s) ==
  /\ reqs[s].op \notin {"idle", "create", "register"}
  /\ LET r == saveEvent(reqs[s])
     IN events' = r.events /\ last' = r.resp
  /\ reqs' = [reqs EXCEPT ![s] = Idle]
  /\ UNCHANGED << gate, users, now, served >>

\* One request at a time: every handler runs to its response before the
\* next request starts.
Next ==
  \/ Tick
  \/ \E u \in Users, valid \in BOOLEAN, draw \in RandomDraws : Create(u, valid, draw)
  \/ \E u \in Users, code \in CodeInputs : Join(u, code)
  \/ \E u \in Users, e \in 1..MaxEvents, t \in Users, p \in PermInputs : SetPermission(u, e, t, p)
  \/ \E u \in Users, e \in 1..MaxEvents, payload \in UpdatePayloads : UpdateEvent(u, e, payload)
  \/ \E u \in Users, e \in 1..MaxEvents : Leave(u, e)
  \/ \E u \in Users, e \in 1..MaxEvents : SoftDelete(u, e)

Spec == Init /\ [][Next]_vars

\* One request at a time, over the operations that are scoped to an event and
\* to its creator: sub-resources, reads, settings, updates that carry the keys
\* isActive and createdBy, and the soft delete.
AccessPayloads ==
  { [isActive |-> TRUE], [isActive |-> FALSE] } \cup { [createdBy |-> u] : u \in Users }

NextAccess ==
  \/ Tick
  \/ \E u \in Users, valid \in BOOLEAN, draw \in RandomDraws : Create(u, valid, draw)
  \/ \E u \in Users, code \in CodeInputs : Join(u, code)
  \/ \E u \in Users, e \in 1..MaxEvents, t \in Users, p \in PermInputs : SetPermission(u, e, t, p)
  \/ \E u \in Users, e \in 1..MaxEvents, payload \in AccessPayloads : UpdateEvent(u, e, payload)
  \/ \E u \in Users, e \in 1..MaxEvents, payload \in SettingsPayloads : UpdateSettings(u, e, payload)
  \/ \E u \in Users, e \in 1..MaxEvents : Leave(u, e)
  \/ \E u \in Users, e \in 1..MaxEvents : SoftDelete(u, e)
  \/ \E u \in Users, e \in 1..MaxEvents, name \in GuestNames : AddGuest(u, e, name)
  \/ \E u \in Users, e \in 1..MaxEvents : GetEvent(u, e)
  \/ \E u \in Users, t \in Users : MyEvents(u, t)

SpecAccess == Init /\ [][NextAccess]_vars

\* Invite codes: create requests that overlap, updates whose body carries the
\* key inviteCode, and the soft delete.
CodePayloads == { [inviteCode |-> c] : c \in CodeInputs }

NextCodes ==
  \/ \E s \in Slots, u \in Users, valid \in BOOLEAN : BeginCreateCode(s, u, valid)
  \/ \E s \in Slots, draw \in RandomDraws : GenerateCode(s, draw)
  \/ \E s \in Slots : CommitCreate(s)
  \/ \E s \in Slots, u \in Users, e \in 1..NumDraws, payload \in CodePayloads :
        BeginUpdateEvent(s, u, e, payload)
  \/ \E s \in Slots, u \in Users, e \in 1..NumDraws : BeginSoftDelete(s, u, e)
  \/ \E s \in Slots : Commit(s)

SpecCodes == Init /\ [][NextCodes]_vars

\* The event loop runs every continuation that is ready: each turn of the
\* code loop and each save of a request in flight is eventually taken.
FairCodes ==
  /\ \A s \in Slots : WF_vars(\E draw \in RandomDraws : GenerateCode(s, draw))
  /\ \A s \in Slots : WF_vars(CommitCreate(s))
  /\ \A s \in Slots : WF_vars(Commit(s))

SpecCodesFair == SpecCodes /\ FairCodes

\* Sub-documents.  The store holds an event of u1 to which two guests and two
\* expenses were added: the document after create and four pushes.
SubGuest(name) ==
  [name |-> name, relation |-> "", dietary |-> "", rsvp |-> "Pending",
   email |-> "", phone |-> "", createdBy |-> reqUserId("u1"),
   createdAt |-> 0, updatedAt |-> 0]
SubExpense(description) ==
  [category |-> "venue", description |-> description, budgeted |-> 1, actual |-> 0,
   vendor |-> "", status |-> "planned", createdBy |-> reqUserId("u1"),
   createdAt |-> 0, updatedAt |-> 0]
SubEvent ==
  [createdBy |-> reqUserId("u1"),
   members |-> << castMember([user |-> reqUserId("u1"), role |-> "groom",
                              permissions |-> "admin", joinedAt |-> 0]) >>,
   inviteCode |-> generateInviteCode(CHOOSE d \in RandomDraws : TRUE),
   isActive |-> TRUE,
   guests |-> << SubGuest("Ann"), SubGuest("Bob") >>,
   expenses |-> << SubExpense("hall"), SubExpense("band") >>,
   vendors |-> << >>,
   seating |-> SeatingDefault(0),
   settings |-> SettingsDefault,
   updatedAt |-> 0,
   v |-> 4]

InitSub ==
  /\ events = << SubEvent >>
  /\ reqs = [s \in Slots |-> Idle]
  /\ last = NoResponse
  /\ now = 0
  /\ served = 0
  /\ gate = NoGate
  /\ users = << >>

\* The names of the guests that overlapping requests add.
SubGuestNames == {"Cat", "Dan"}

\* The bodies of the updates that overlap.
SubGuestUpdates == { [rsvp |-> "Attending"] }
SubExpenseUpdates == { [status |-> "paid"] }

\* Requests on the guests and expenses of an event overlap: each is between
\* its read and its save while others run.
NextSub ==
  \/ \E s \in Slots, u \in Users, e \in 1..MaxEvents, name \in SubGuestNames :
        BeginAddGuest(s, u, e, name)
  \/ \E s \in Slots, u \in Users, e \in 1..MaxEvents, i \in RaceIndexInputs,
         updates \in SubGuestUpdates : BeginUpdateGuest(s, u, e, i, updates)
  \/ \E s \in Slots, u \in Users, e \in 1..MaxEvents, i \in RaceIndexInputs :
        BeginDeleteGuest(s, u, e, i)
  \/ \E s \in Slots, u \in Users, e \in 1..MaxEvents, i \in RaceIndexInputs,
         updates \in SubExpenseUpdates : BeginUpdateExpense(s, u, e, i, updates)
  \/ \E s \in Slots, u \in Users, e \in 1..MaxEvents, i \in RaceIndexInputs :
        BeginDeleteExpense(s, u, e, i)
  \/ \E s \in Slots : Commit(s)

SpecSub == InitSub /\ [][NextSub]_vars

\* One request at a time on the guests and expenses of the event, with every
\* index a path may carry.
NextIndex ==
  \/ Tick
  \/ \E u \in Users, e \in 1..MaxEvents, name \in GuestNames : AddGuest(u, e, name)
  \/ \E u \in Users, e \in 1..MaxEvents, i \in IndexInputs, updates \in GuestUpdates :
        UpdateGuest(u, e, i, updates)
  \/ \E u \in Users, e \in 1..MaxEvents, i \in IndexInputs : DeleteGuest(u, e, i)
  \/ \E u \in Users, e \in 1..MaxEvents, i \in IndexInputs, updates \in ExpenseUpdates :
        UpdateExpense(u, e, i, updates)
  \/ \E u \in Users, e \in 1..MaxEvents, i \in IndexInputs : DeleteExpense(u, e, i)

SpecIndex == InitSub /\ [][NextIndex]_vars

\* Vendors.  The store holds an event of u1 to which two vendors were added:
\* the document after create and two pushes.
SubVendor(vendorId, name, email) ==
  [_id |-> ObjectId(vendorId), category |-> "music", name |-> name,
   contactInfo |-> [phone |-> "", email |-> email, website |-> ""],
   pricing |-> [type |-> "range", amount |-> 0, rangeMin |-> 1, rangeMax |-> 2],
   notes |-> "", status |-> "considering", createdBy |-> reqUserId("u1"),
   createdAt |-> 0, updatedAt |-> 0]

InitVendors ==
  /\ events = << [SubEvent EXCEPT
                    !.guests = << >>, !.expenses = << >>, !.v = 2,
                    !.vendors = << SubVendor("v1", "band", "a@b.c"),
                                   SubVendor("v2", "dj", "") >>] >>
  /\ reqs = [s \in Slots |-> Idle]
  /\ last = NoResponse
  /\ now = 0
  /\ served = 0
  /\ gate = NoGate
  /\ users = << >>

\* One request at a time on the vendors of the event.
NextVendors ==
  \/ Tick
  \/ \E u \in Users, e \in 1..MaxEvents, vendorId \in VendorIds, updates \in VendorUpdates :
        UpdateVendor(u, e, vendorId, updates)
  \/ \E u \in Users, e \in 1..MaxEvents, vendorId \in VendorIds :
        DeleteVendor(u, e, vendorId)

SpecVendors == InitVendors /\ [][NextVendors]_vars

\* Creation with every body, and joins.
NextCreate ==
  \/ Tick
  \/ \E u \in Users, body \in CreateBodies, draw \in RandomDraws : CreateEvent(u, body, draw)
  \/ \E u \in Users, code \in CodeInputs : Join(u, code)

SpecCreate == Init /\ [][NextCreate]_vars

\* Joins by invite code, next to the requests that create an event, write its
\* code and delete it.
NextJoin ==
  \/ Tick
  \/ \E u \in Users, valid \in BOOLEAN, draw \in RandomDraws : Create(u, valid, draw)
  \/ \E u \in Users, code \in CodeInputs : Join(u, code)
  \/ \E u \in Users, e \in 1..MaxEvents, payload \in CodePayloads : UpdateEvent(u, e, payload)
  \/ \E u \in Users, e \in 1..MaxEvents : SoftDelete(u, e)

SpecJoin == Init /\ [][NextJoin]_vars

\* Updates that carry the key budget, next to the requests that create an
\* event and write its settings.
NextBudget ==
  \/ Tick
  \/ \E u \in Users, valid \in BOOLEAN, draw \in RandomDraws : Create(u, valid, draw)
  \/ \E u \in Users, e \in 1..MaxEvents, payload \in BudgetPayloads : UpdateEvent(u, e, payload)
  \/ \E u \in Users, e \in 1..MaxEvents, payload \in SettingsPayloads :
        UpdateSettings(u, e, payload)

SpecBudget == Init /\ [][NextBudget]_vars

\* POST /register up to its save: another register may run before the save.
BeginRegister(s, body) ==
  /\ CanStart(s)
  /\ Receive
  /\ Len(users) + Cardinality({ t \in Slots : reqs[t].op = "register" }) < MaxUsers
  /\ LET plan == registerHandler(body)
     IN IF plan.respond
        THEN reqs' = reqs /\ last' = plan.resp
        ELSE reqs' = [reqs EXCEPT ![s] = plan.req] /\ last' = NoResponse
  /\ UNCHANGED << gate, users, events, now >>

CommitRegister(s) ==
  /\ reqs[s].op = "register"
  /\ LET r == insertUser(reqs[s])
     IN users' = r.users /\ last' = r.resp
  /\ reqs' = [reqs EXCEPT ![s] = Idle]
  /\ UNCHANGED << gate, events, now, served >>

Login(body) ==
  /\ Receive
  /\ last' = loginHandler(body)
  /\ UNCHANGED << gate, users, events, reqs, now >>

\* Registrations that overlap, and logins.
NextAuth ==
  \/ Tick
  \/ \E s \in Slots, body \in RegisterBodies : BeginRegister(s, body)
  \/ \E s \in Slots : CommitRegister(s)
  \/ \E body \in LoginBodies : Login(body)

SpecAuth == Init /\ [][NextAuth]_vars

\* Two stored events, of two creators, each with a code of its own; the
\* creator of the first is a member of the second.
OtherEvent ==
  [SubEvent EXCEPT
     !.createdBy = reqUserId("u2"),
     !.members = << castMember([user |-> reqUserId("u2"), role |-> "groom",
                                permissions |-> "admin", joinedAt |-> 0]),
                    castMember([user |-> reqUserId("u1"), role |-> "guest",
                                joinedAt |-> 0]) >>,
     !.inviteCode = generateInviteCode(
                      CHOOSE d \in RandomDraws : generateInviteCode(d) # SubEvent.inviteCode),
     !.guests = << SubGuest("Eve") >>,
     !.expenses = << >>,
     !.v = 3]

InitTwo ==
  /\ events = << SubEvent, OtherEvent >>
  /\ reqs = [s \in Slots |-> Idle]
  /\ last = NoResponse
  /\ now = 0
  /\ served = 0
  /\ gate = NoGate
  /\ users = << >>

\* The users that send requests to the two events: their creators.
TwoUsers == {"u1", "u2"}

\* Requests addressed to either of the two events overlap.
NextTwo ==
  \/ \E s \in Slots, u \in TwoUsers, code \in { events[e].inviteCode : e \in EventIds } :
        BeginJoin(s, u, code)
  \/ \E s \in Slots, u \in TwoUsers, e \in EventIds : BeginLeave(s, u, e)
  \/ \E s \in Slots, u \in TwoUsers, e \in EventIds : BeginSoftDelete(s, u, e)
  \/ \E s \in Slots, u \in TwoUsers, e \in EventIds,
         payload \in { [inviteCode |-> events[f].inviteCode] : f \in EventIds } :
        BeginUpdateEvent(s, u, e, payload)
  \/ \E s \in Slots, u \in TwoUsers, e \in EventIds : BeginAddGuest(s, u, e, "Cat")
  \/ \E s \in Slots, u \in TwoUsers, e \in EventIds : BeginDeleteGuest(s, u, e, << "0" >>)
  \/ \E u \in TwoUsers, e \in EventIds, target \in TwoUsers :
        SetPermission(u, e, target, "collaborator")
  \/ \E s \in Slots : Commit(s)

SpecTwo == InitTwo /\ [][NextTwo]_vars

\* The :perms of a path that is none of the permissions of the data model.
OtherPerms == {"superuser"}

\* set_permission requests with every :perms, on events with members.
NextPerms ==
  \/ Tick
  \/ \E u \in Users, valid \in BOOLEAN, draw \in RandomDraws : Create(u, valid, draw)
  \/ \E u \in Users, inviteCode \in CodeInputs : Join(u, inviteCode)
  \/ \E actor \in Users, e \in 1..MaxEvents, target \in Users,
         perms \in PermInputs \cup OtherPerms : SetPermission(actor, e, target, perms)

SpecPerms == Init /\ [][NextPerms]_vars

BeginSetPermission(s, actor, e, target, perms) ==
  Begin(s, setPermissionHandler(actor, e, target, perms))

\* An event with three members: its creator and two users that joined.
LeaveEvent ==
  [SubEvent EXCEPT
     !.members = << castMember([user |-> reqUserId("u1"), role |-> "groom",
                                permissions |-> "admin", joinedAt |-> 0]),
                    castMember([user |-> reqUserId("u2"), role |-> "guest", joinedAt |-> 0]),
                    castMember([user |-> reqUserId("u3"), role |-> "guest", joinedAt |-> 0]) >>]

InitLeave ==
  /\ events = << LeaveEvent >>
  /\ reqs = [s \in Slots |-> Idle]
  /\ last = NoResponse
  /\ now = 0
  /\ served = 0
  /\ gate = NoGate
  /\ users = << >>

\* Members leave and join again while permissions are set: each request is
\* between its read and its save while others run.
NextLeave ==
  \/ Tick
  \/ \E s \in Slots, u \in Users, e \in 1..MaxEvents : BeginLeave(s, u, e)
  \/ \E s \in Slots, u \in Users, e \in 1..MaxEvents :
        BeginJoin(s, u, events[e].inviteCode)
  \/ \E s \in Slots, actor \in Users, e \in 1..MaxEvents, target \in Users,
         perms \in {"admin", "collaborator"} : BeginSetPermission(s, actor, e, target, perms)
  \/ \E s \in Slots : Commit(s)

SpecLeave == InitLeave /\ [][NextLeave]_vars

\* Members get permissions, leave and join again, next to the operations
\* that are scoped to the members of an event.
NextRejoin ==
  \/ \E u \in Users, valid \in BOOLEAN, draw \in RandomDraws : Create(u, valid, draw)
  \/ \E u \in Users, e \in EventIds : Join(u, events[e].inviteCode)
  \/ \E u \in Users, e \in 1..MaxEvents, t \in Users, p \in PermInputs : SetPermission(u, e, t, p)
  \/ \E u \in Users, e \in 1..MaxEvents : Leave(u, e)
  \/ \E u \in Users, e \in 1..MaxEvents : AddGuest(u, e, "Ann")
  \/ \E u \in Users, e \in 1..MaxEvents : GetEvent(u, e)
  \/ \E u \in Users : MyEvents(u, u)

SpecRejoin == Init /\ [][NextRejoin]_vars

BeginSaveSeating(s, u, e, seatingData) == Begin(s, saveSeatingHandler(u, e, seatingData))

\* Requests that save the seating of an event overlap.
NextSeating ==
  \/ Tick
  \/ \E s \in Slots, u \in Users, e \in 1..MaxEvents, seatingData \in SeatingPayloads :
        BeginSaveSeating(s, u, e, seatingData)
  \/ \E s \in Slots : Commit(s)

SpecSeating == InitSub /\ [][NextSeating]_vars

\* The access gates as functions of req.userMember: a request arrives with
\* any member entry, or none, and passes through one gate.
InitGates ==
  /\ events = << >>
  /\ reqs = [s \in Slots |-> Idle]
  /\ last = NoResponse
  /\ now = 0
  /\ served = 0
  /\ gate \in { [NoGate EXCEPT !.userMember = m] : m \in MemberInputs }
  /\ users = << >>

ApplyGate(name, outcome) ==
  /\ gate.name = "-"
  /\ gate' = [gate EXCEPT !.name = name, !.outcome = outcome]
  /\ UNCHANGED << events, reqs, last, now, served, users >>

RequireOwner == ApplyGate("requireOwner", requireOwner(gate.userMember))
RequireOwnerOrAdmin == ApplyGate("requireOwnerOrAdmin", requireOwnerOrAdmin(gate.userMember))
RequireCollaborator == ApplyGate("requireCollaborator", requireCollaborator(gate.userMember))
BlockPendingUsers == ApplyGate("blockPendingUsers", blockPendingUsers(gate.userMember))

NextGates ==
  \/ RequireOwner
  \/ RequireOwnerOrAdmin
  \/ RequireCollaborator
  \/ BlockPendingUsers

SpecGates == InitGates /\ [][NextGates]_vars

\* Requests overlap: up to MaxInFlight handlers are between their read and
\* their save.  The requests that overlap are create, join, leave and delete.
NextRace ==
  \/ Tick
  \/ \E s \in Slots, u \in Users, valid \in BOOLEAN : BeginCreate(s, u, valid)
  \/ \E s \in Slots, draw \in RandomDraws : GenerateCode(s, draw)
  \/ \E s \in Slots : CommitCreate(s)
  \/ \E s \in Slots, u \in Users, code \in CodeInputs : BeginJoin(s, u, code)
  \/ \E s \in Slots, u \in Users, e \in 1..MaxEvents : BeginLeave(s, u, e)
  \/ \E s \in Slots, u \in Users, e \in 1..MaxEvents : BeginSoftDelete(s, u, e)
  \/ \E s \in Slots : Commit(s)

SpecRace == Init /\ [][NextRace]_vars

\* ------------------------------------------------------------ properties
\* The permission of user u in an event document, "none" for a non-member.
PermOf(event, u) ==
  IF \E k \in 1..Len(event.members) : event.members[k].user.hex = u
  THEN event.members[CHOOSE k \in 1..Len(event.members) :
                       /\ event.members[k].user.hex = u
                       /\ \A j \in 1..(k - 1) : event.members[j].user.hex # u].permissions
  ELSE "none"

CreatorOf(event) == event.createdBy.hex

MemberUsers(event) == { event.members[k].user.hex : k \in 1..Len(event.members) }

\* The step just taken answered a request of kind op on a stored event.
Answered(op) == last'.op = op /\ last'.eid \in EventIds

\* C1: every active event has exactly one member whose permissions value is
\* owner, and that member is the creator of the event.
C1_ExactlyOneOwnerTheCreator ==
  \A e \in EventIds :
    events[e].isActive =>
      /\ Cardinality({ k \in 1..Len(events[e].members) :
                         events[e].members[k].permissions = "owner" }) = 1
      /\ PermOf(events[e], CreatorOf(events[e])) = "owner"

\* C2: set_permission by an actor who is not an owner or admin member of the
\* event is answered 403 Forbidden and leaves the members of the event as
\* they were.
C2_SetPermissionNeedsOwnerOrAdmin ==
  [][ (Answered("set_permission")
       /\ PermOf(events[last'.eid], last'.actor) \notin {"owner", "admin"})
      => (last'.status = 403
          /\ events'[last'.eid].members = events[last'.eid].members) ]_vars

\* C3: a member of an event becomes admin only in a set_permission step whose
\* actor holds the permission owner in that event.
C3_AdminOnlyFromOwner ==
  [][ \A e \in EventIds : \A u \in Users :
        (PermOf(events'[e], u) = "admin" /\ PermOf(events[e], u) # "admin")
        => (Answered("set_permission") /\ last'.eid = e
            /\ PermOf(events[e], last'.actor) = "owner") ]_vars

\* C4: set_permission on a member whose permission is admin, by another
\* member whose permission is admin, fails and leaves the target unchanged.
C4_AdminCannotChangeAdmin ==
  [][ (Answered("set_permission")
       /\ last'.actor # last'.target
       /\ PermOf(events[last'.eid], last'.actor) = "admin"
       /\ PermOf(events[last'.eid], last'.target) = "admin")
      => (last'.status # 200
          /\ PermOf(events'[last'.eid], last'.target) = "admin") ]_vars

\* C5: set_permission with the new permission owner fails, whoever the actor
\* and the target are, and leaves the stored members unchanged; no member of
\* any event has the permission owner unless it was inserted with it.
C5_SetPermissionToOwnerFails ==
  [][ /\ (Answered("set_permission") /\ last'.perms = "owner")
         => (last'.status # 200 /\ events' = events)
      /\ \A e \in EventIds : \A u \in Users :
           PermOf(events'[e], u) = "owner" => PermOf(events[e], u) = "owner" ]_vars

\* C6: set_permission that targets the creator of the event fails for every
\* actor and every new permission, and the permission of the creator stays
\* the one written when the event was created.
C6_CreatorPermissionImmutable ==
  [][ (Answered("set_permission")
       /\ last'.target = CreatorOf(events[last'.eid]))
      => (last'.status # 200
          /\ PermOf(events'[last'.eid], last'.target)
               = PermOf(events[last'.eid], last'.target)) ]_vars

\* C7: leave requested by the creator of the event is rejected and leaves
\* the members list unchanged, so that the creator is a member of every
\* active event.
C7_CreatorCannotLeave ==
  [][ /\ (Answered("leave") /\ last'.actor = CreatorOf(events[last'.eid]))
         => (last'.status = 400
             /\ events'[last'.eid].members = events[last'.eid].members)
      /\ \A e \in EventIds :
           events'[e].isActive => CreatorOf(events'[e]) \in MemberUsers(events'[e]) ]_vars

\* C8: no step removes the membership of the owner (the creator) of an
\* event, and no step removes the membership of an admin unless the request
\* comes from the owner or from that admin leaving.
C8_RemovalGuards ==
  [][ \A e \in EventIds : \A t \in MemberUsers(events[e]) \ MemberUsers(events'[e]) :
        /\ t # CreatorOf(events[e])
        /\ PermOf(events[e], t) # "owner"
        /\ PermOf(events[e], t) = "admin"
             => \/ last'.actor = t
                \/ last'.actor = CreatorOf(events[e])
                \/ PermOf(events[e], last'.actor) = "owner" ]_vars

\* C9: a join by a user who is already a member of the active event that the
\* invite code names is answered 200 and changes no stored event: entries,
\* roles, permissions and joinedAt of the members stay as they were.
C9_JoinIdempotent ==
  [][ \A e \in EventIds :
        (/\ last'.op = "join"
         /\ events[e].isActive
         /\ toUpperCase(last'.code) = events[e].inviteCode
         /\ last'.actor \in MemberUsers(events[e]))
        => (last'.status = 200 /\ last'.eid = e /\ events' = events) ]_vars

\* A join answered 200 for a user who joined the event at an earlier time
\* and is not its creator.
C9_Witness ==
  /\ last.op = "join" /\ last.status = 200 /\ last.eid \in EventIds
  /\ last.actor # CreatorOf(events[last.eid])
  /\ \E k \in 1..Len(events[last.eid].members) :
       /\ events[last.eid].members[k].user.hex = last.actor
       /\ events[last.eid].members[k].joinedAt < now

\* C10: the members list of an event holds at most one entry per user, also
\* when two join requests of the same user overlap.
C10_OneMembershipPerUser ==
  \A e \in EventIds : \A i, j \in 1..Len(events[e].members) :
    events[e].members[i].user.hex = events[e].members[j].user.hex => i = j

\* C11: a membership created by a join has permissions pending_approval and
\* role guest, whoever the joining user is, and addMember stores these
\* permissions whatever permission argument it is called with.
C11_JoinMembershipPendingGuest ==
  [][ /\ \A e \in EventIds :
           (last'.op = "join" /\ last'.eid = e /\ events'[e] # events[e])
           => LET ms == events'[e].members
              IN /\ Len(ms) = Len(events[e].members) + 1
                 /\ ms[Len(ms)].user.hex = last'.actor
                 /\ ms[Len(ms)].permissions = "pending_approval"
                 /\ ms[Len(ms)].role = "guest"
      /\ \A e \in EventIds : \A u \in Users : \A p \in PermInputs \cup PermissionsEnum :
           LET r == addMember(events[e], reqUserId(u), "guest", p)
           IN r.added => /\ r.members[Len(r.members)].permissions = "pending_approval"
                         /\ r.members[Len(r.members)].role = "guest" ]_vars

\* The second request served was a join that added its user, a member with
\* permissions pending_approval and role guest, to the event of another user.
C11_Witness ==
  /\ served = 2 /\ last.op = "join" /\ last.status = 200 /\ last.eid \in EventIds
  /\ last.actor # CreatorOf(events[last.eid])
  /\ LET ms == events[last.eid].members
     IN /\ Len(ms) = 2
        /\ ms[2].user.hex = last.actor
        /\ ms[2].permissions = "pending_approval"
        /\ ms[2].role = "guest"

\* C12: a member whose permission is pending_approval is denied the mutations
\* of the event's sub-resources: an addGuest request of such a member fails
\* and leaves every event unchanged.
C12_PendingMemberDenied ==
  [][ (/\ last'.op = "addGuest"
       /\ last'.param \in EventIds
       /\ PermOf(events[last'.param], last'.actor) = "pending_approval")
      => (last'.status \notin {200, 201} /\ events' = events) ]_vars

\* C13: requireOwner calls next() exactly for a member entry with permissions
\* owner, requireOwnerOrAdmin exactly for owner or admin, requireCollaborator
\* exactly for a present entry whose permissions is not pending_approval; a
\* gate that answers 403 does not call next().
C13_GatesImplementAuthorizeTable ==
  LET m == gate.userMember
      present == m # Undefined
  IN /\ gate.name = "requireOwner"
          => (gate.outcome.next <=> (present /\ m.permissions = "owner"))
     /\ gate.name = "requireOwnerOrAdmin"
          => (gate.outcome.next <=> (present /\ m.permissions \in {"owner", "admin"}))
     /\ gate.name = "requireCollaborator"
          => (gate.outcome.next <=> (present /\ m.permissions # "pending_approval"))
     /\ gate.name \in {"requireOwner", "requireOwnerOrAdmin", "requireCollaborator"}
          => (gate.outcome.status = 403 <=> ~ gate.outcome.next)

\* requireOwnerOrAdmin has let an admin entry through.
C13_Witness ==
  /\ gate.name = "requireOwnerOrAdmin"
  /\ gate.userMember # Undefined
  /\ gate.userMember.permissions = "admin"
  /\ gate.outcome.next

\* C14: no gate calls next() for a request whose req.userMember is undefined.
C14_AbsentMemberDenied ==
  (gate.name # "-" /\ gate.userMember = Undefined) => ~ gate.outcome.next

\* C15: an event whose isActive is false is never changed again, so it never
\* becomes active; a join with its invite code, and every request with a
\* valid body addressed to it (detail, guest, permission, update, settings,
\* leave, delete) is answered 404, and no list of events contains it.
C15_SoftDeleteAbsorbing ==
  [][ \A e \in EventIds :
        ~ events[e].isActive =>
          /\ events'[e] = events[e]
          /\ (last'.op = "join" /\ toUpperCase(last'.code) = events[e].inviteCode)
               => last'.status = 404
          /\ (last'.op \in {"getEvent", "addGuest", "set_permission", "updateEvent",
                             "updateSettings", "leave", "softDelete"}
              /\ last'.param = e)
               => (last'.status = 404 \/ (last'.op = "addGuest" /\ last'.status = 400))
          /\ last'.op = "myEvents" => e \notin last'.data ]_vars

\* A member of a soft-deleted event has asked to add a guest to it and was
\* answered 404.
C15_Witness ==
  /\ last.op = "addGuest" /\ last.status = 404
  /\ last.param \in EventIds
  /\ ~ events[last.param].isActive
  /\ last.actor \in MemberUsers(events[last.param])

\* C16: updateEvent, updateSettings and softDelete succeed only for an actor
\* whose permission in the event is owner; for every other actor they fail
\* and leave the events unchanged.
C16_OwnerOnlyOperations ==
  [][ (/\ last'.op \in {"updateEvent", "updateSettings", "softDelete"}
       /\ last'.param \in EventIds
       /\ PermOf(events[last'.param], last'.actor) # "owner")
      => (last'.status # 200 /\ events' = events) ]_vars

\* C17: a successful softDelete sets isActive to false and stamps updatedAt,
\* and changes nothing else: the members, guests, expenses, vendors, settings,
\* seating and inviteCode of the event, and every other event, are as before,
\* and the document is still stored.
C17_SoftDeleteFrame ==
  [][ (last'.op = "softDelete" /\ last'.status = 200)
      => /\ last'.eid \in EventIds
         /\ events' = [events EXCEPT ![last'.eid].isActive = FALSE,
                                      ![last'.eid].updatedAt = now] ]_vars

\* An event with a second member and a guest has been soft-deleted at a time
\* later than its creation.
C17_Witness ==
  /\ last.op = "softDelete" /\ last.status = 200 /\ last.eid \in EventIds
  /\ ~ events[last.eid].isActive
  /\ Len(events[last.eid].members) = 2
  /\ Len(events[last.eid].guests) = 1
  /\ events[last.eid].updatedAt > events[last.eid].members[1].joinedAt

\* A string of exactly 8 characters, each from [A-Z0-9].
ValidCode(c) ==
  /\ Len(c) = CodeLength
  /\ \A i \in 1..Len(c) : \E j \in 1..Len(chars) : chars[j] = c[i]

\* C18: every stored event has an invite code of exactly 8 characters from
\* [A-Z0-9], and no two stored events, active or soft-deleted, have the same
\* invite code, also when create requests overlap.
C18_InviteCodesWellFormedAndUnique ==
  /\ \A e \in EventIds : ValidCode(events[e].inviteCode)
  /\ \A e, f \in EventIds : events[e].inviteCode = events[f].inviteCode => e = f

\* C19: the invite code of a stored event never changes: no step of any
\* request alters it.
C19_InviteCodeNeverChanges ==
  [][ \A e \in EventIds : events'[e].inviteCode = events[e].inviteCode ]_vars

\* C20: the generation of an invite code ends: a create request that is
\* drawing codes eventually stops drawing and is answered, also when every
\* code it draws is the code of a stored event.
C20_CodeGenerationTerminates ==
  \A s \in Slots :
    (reqs[s].op = "create" /\ reqs[s].pc = "generate") ~> (reqs[s].op = "idle")

\* ------------------------------------------------ sub-document claims
IndexOps == {"updateGuest", "deleteGuest", "updateExpense", "deleteExpense"}
DeleteOps == {"deleteGuest", "deleteExpense"}
SubOps == IndexOps \cup {"addGuest"}

\* The save of the request in slot s is the step taken.
Saves(s) == reqs[s].op # "idle" /\ reqs'[s] = Idle

\* What tells one row of a list from another: no saved update changes it.
rowKey(row) ==
  IF "name" \in DOMAIN row THEN row.name
  ELSE IF "description" \in DOMAIN row THEN row.description
  ELSE "-"

\* C21: an addGuest request that loaded the event before another addGuest
\* saved still succeeds with 201, and its save appends its guest to the list
\* as stored at that moment; so two overlapping addGuest requests leave both
\* new guests and every earlier guest in the list.
C21_ConcurrentAddGuestsBothKept ==
  [][\A s \in Slots :
       (Saves(s) /\ reqs[s].op = "addGuest") =>
          /\ last'.status = 201
          /\ events'[reqs[s].eid].guests =
               Append(events[reqs[s].eid].guests, reqs[s].delta.value)]_vars

\* An addGuest was saved while another addGuest, which loaded the event
\* before that save, is still in flight.
C21_Witness ==
  \E s \in Slots :
     /\ reqs[s].op = "addGuest"
     /\ reqs[s].v < events[reqs[s].eid].v
     /\ last.op = "addGuest" /\ last.status = 201
     /\ Len(events[reqs[s].eid].guests) = 3

\* C22: an index-addressed update or delete that overlaps with a delete on
\* the same list either fails and changes nothing, or succeeds and leaves
\* every row other than the one it loaded at its index as it was stored.
C22_IndexOpsTouchOnlyIntendedRow ==
  [][\A s \in Slots :
       (/\ Saves(s) /\ reqs[s].op \in IndexOps
        /\ \E t \in Slots \ {s} :
              /\ reqs[t].op \in DeleteOps
              /\ reqs[t].eid = reqs[s].eid
              /\ reqs[t].delta.path = reqs[s].delta.path)
       => LET r == reqs[s]
              old == events[r.eid][r.delta.path]
              new == events'[r.eid][r.delta.path]
          IN \/ last'.status >= 400 /\ events' = events
             \/ /\ last'.status = 200
                /\ \A k \in 1..Len(old) :
                     rowKey(old[k]) # r.row => \E j \in 1..Len(new) : new[j] = old[k]
                /\ \A j \in 1..Len(new) :
                     rowKey(new[j]) # r.row => \E k \in 1..Len(old) : old[k] = new[j]]_vars

\* The write of a request meets a version conflict: its filter carries the
\* version it loaded and the stored version has moved on.
versionConflict(req) ==
  versionWhere(req.delta) /\ events[req.eid].v # req.v

\* C23: a sub-document mutation whose write meets a version conflict is not
\* answered with a failure after that one write: it is reloaded and applied
\* again, and fails only once the attempts are used up.
C23_VersionConflictIsRetried ==
  [][\A s \in Slots :
       (Saves(s) /\ reqs[s].op \in SubOps /\ versionConflict(reqs[s]))
       => ~ (last'.status >= 400 /\ events' = events)]_vars

\* The index of a path that is an integer: digits, and nothing else.
integerIndex(s) ==
  LET d == readDigits(s, 1, 0, 0)
  IN IF d.read = 0 \/ d.read # Len(s) THEN NaN ELSE Num(d.value)

\* The list an index-addressed operation works on.
listOf(op) == IF op \in {"updateGuest", "deleteGuest"} THEN "guests" ELSE "expenses"

\* C24: an index-addressed update or delete whose index is not an integer in
\* [0, length-1] of the list as loaded answers with an error and leaves the
\* guests and the expenses as they were.
C24_InvalidIndexRejected ==
  [][(/\ last'.op \in IndexOps
      /\ last'.param \in EventIds
      /\ invalidIndex(integerIndex(last'.index), events[last'.param][listOf(last'.op)]))
     => /\ last'.status >= 400
        /\ events'[last'.param].guests = events[last'.param].guests
        /\ events'[last'.param].expenses = events[last'.param].expenses]_vars

\* ------------------------------------------------ absent or inaccessible
\* An event id that no stored event has.
AbsentId == Len(events) + 1

\* Two handlers answer alike without a save: the same response, but for the
\* id of the path, which the request itself carries.
sameAnswer(p, q) ==
  /\ p.respond /\ q.respond
  /\ [p.resp EXCEPT !.param = 0] = [q.resp EXCEPT !.param = 0]

\* C25: for every operation on an event that needs membership, a caller who
\* is not a member of a stored event gets the response the same request gets
\* for an id that no event has, and the handler saves nothing in either case.
C25_NonMemberSeesAbsentEvent ==
  \A u \in Users, e \in EventIds :
     u \notin MemberUsers(events[e]) =>
       /\ sameAnswer(getEventHandler(u, e), getEventHandler(u, AbsentId))
       /\ sameAnswer(leaveHandler(u, e), leaveHandler(u, AbsentId))
       /\ \A name \in GuestNames :
            sameAnswer(addGuestHandler(u, e, name), addGuestHandler(u, AbsentId, name))
       /\ \A i \in IndexInputs, updates \in GuestUpdates :
            sameAnswer(updateGuestHandler(u, e, i, updates),
                       updateGuestHandler(u, AbsentId, i, updates))
       /\ \A i \in IndexInputs :
            sameAnswer(deleteGuestHandler(u, e, i), deleteGuestHandler(u, AbsentId, i))
       /\ \A i \in IndexInputs, updates \in ExpenseUpdates :
            sameAnswer(updateExpenseHandler(u, e, i, updates),
                       updateExpenseHandler(u, AbsentId, i, updates))
       /\ \A i \in IndexInputs :
            sameAnswer(deleteExpenseHandler(u, e, i), deleteExpenseHandler(u, AbsentId, i))
       /\ \A t \in Users, perms \in PermInputs :
            sameAnswer(setPermissionHandler(u, e, t, perms),
                       setPermissionHandler(u, AbsentId, t, perms))

\* ------------------------------------------------ settings
\* The settings with the keys of the payload that the schema defines set to
\* the payload's values, and every other key as it was.
settingsPatch(settings, payload) ==
  [k \in DOMAIN settings |-> IF k \in DOMAIN payload THEN payload[k] ELSE settings[k]]

\* C26 as stated: an updateSettings that is saved sets exactly the schema
\* keys of the payload, ignores the other payload keys without error, and
\* leaves every other settings key and every non-settings field of the event,
\* and every other event, as it was.
C26_SettingsFrameAllFields ==
  \A u \in Users, e \in EventIds, payload \in SettingsPayloads :
     LET plan == updateSettingsHandler(u, e, payload)
     IN ~ plan.respond =>
          /\ saveEvent(plan.req).resp.status = 200
          /\ saveEvent(plan.req).events =
               [events EXCEPT ![e].settings = settingsPatch(events[e].settings, payload)]

\* C26 amended: as above, except that the save stamps updatedAt with the
\* current time.
C26_SettingsFrameButUpdatedAt ==
  \A u \in Users, e \in EventIds, payload \in SettingsPayloads :
     LET plan == updateSettingsHandler(u, e, payload)
     IN ~ plan.respond =>
          /\ saveEvent(plan.req).resp.status = 200
          /\ saveEvent(plan.req).events =
               [events EXCEPT ![e].settings = settingsPatch(events[e].settings, payload),
                              ![e].updatedAt = now]

\* An updateSettings was saved on an event with a second member, and its
\* settings are no longer the defaults.
C26_Witness ==
  /\ last.op = "updateSettings" /\ last.status = 200
  /\ last.eid \in EventIds
  /\ events[last.eid].settings # SettingsDefault
  /\ Len(events[last.eid].members) >= 2

\* ------------------------------------------------ vendors
\* The vendor with the sub-fields of contactInfo and pricing that the payload
\* carries set to the payload's values, the plain fields of the payload set,
\* every other field and sub-field as it was, and updatedAt stamped.
vendorPatch(vendor, updates) ==
  [f \in DOMAIN vendor |->
     CASE f = "updatedAt" -> now
       [] f = "contactInfo" /\ f \in DOMAIN updates ->
            [phone |-> IF "phone" \in DOMAIN updates[f] THEN updates[f]["phone"]
                       ELSE vendor[f].phone,
             email |-> IF "email" \in DOMAIN updates[f] THEN updates[f]["email"]
                       ELSE vendor[f].email,
             website |-> IF "website" \in DOMAIN updates[f] THEN updates[f]["website"]
                         ELSE vendor[f].website]
       [] f = "pricing" /\ f \in DOMAIN updates ->
            [type |-> IF "type" \in DOMAIN updates[f] THEN updates[f]["type"]
                      ELSE vendor[f].type,
             amount |-> IF "amount" \in DOMAIN updates[f] THEN updates[f]["amount"]
                        ELSE vendor[f].amount,
             rangeMin |-> IF "rangeMin" \in DOMAIN updates[f] THEN updates[f]["rangeMin"]
                          ELSE vendor[f].rangeMin,
             rangeMax |-> IF "rangeMax" \in DOMAIN updates[f] THEN updates[f]["rangeMax"]
                          ELSE vendor[f].rangeMax]
       [] f \notin {"updatedAt", "contactInfo", "pricing"} /\ f \in DOMAIN updates -> updates[f]
       [] OTHER -> vendor[f]]

C28_CreateValidatesAndSeedsCreator ==
  [][(last'.op = "create" /\ last'.body # << >>) =>
       /\ (Len(last'.body.name) < 2 \/ last'.body.eventType \notin EventTypeEnum)
            => (last'.status = 400 /\ events' = events)
       /\ last'.status = 201
            => /\ Len(events') = Len(events) + 1
               /\ SubSeq(events', 1, Len(events)) = events
               /\ last'.eid = Len(events')
               /\ Len(events'[last'.eid].members) = 1
               /\ events'[last'.eid].members[1].user = reqUserId(last'.actor)
               /\ events'[last'.eid].createdBy = reqUserId(last'.actor)]_vars

\* An event was created from a body with a name of two characters between
\* white space: its members are the creator alone.
C28_Witness ==
  /\ last.op = "create" /\ last.status = 201
  /\ last.body.name = << " ", "a", "b", " " >>
  /\ Len(events[last.eid].members) = 1

\* ------------------------------------------------ join by invite code
\* The active events whose code is the code submitted, letter case aside.
matchesIgnoringCase(code) ==
  { e \in EventIds :
      events[e].isActive /\ toLowerCase(events[e].inviteCode) = toLowerCase(code) }

\* C29: a join whose code is, letter case aside, the code of an active event
\* is answered with success for that event and the caller is a member of it
\* afterwards; a join whose code matches no active event is answered with 404
\* (400 when the code has not 8 characters) and changes no event.
C29_JoinIgnoresLetterCase ==
  [][last'.op = "join" =>
       IF matchesIgnoringCase(last'.code) # {}
       THEN /\ last'.status = 200
            /\ last'.eid \in matchesIgnoringCase(last'.code)
            /\ last'.actor \in MemberUsers(events'[last'.eid])
       ELSE /\ last'.status = IF Len(last'.code) = CodeLength THEN 404 ELSE 400
            /\ events' = events]_vars

UniqueEmails ==
  \A j, k \in 1..Len(users) : users[j].email = users[k].email => j = k

\* The address of a register request that passed validation is stored.
emailExists(resp) ==
  /\ resp.op = "register" /\ resp.status # 400
  /\ findOneUser(normalizeEmail(resp.body.email)) # {}

\* C31: no two stored users share an email, and every response to a register
\* request whose email is stored when the response is sent has status 409
\* and the users are as before, also when another register for the same
\* email ran between the existence check and the save.
C31_DuplicateRegisterIsConflict ==
  [][/\ UniqueEmails'
     /\ (last'.op = "register" /\ emailExists(last'))
          => (last'.status = 409 /\ users' = users)]_vars

\* C32: every response with success = false (a status of 400 or more)
\* carries no password hash and no submitted password: no entry of its
\* errors list has the password or the confirmation of the request as value.
C32_FailureEnvelopeHasNoSecret ==
  (last.op \in {"register", "login"} /\ last.status >= 400) =>
    /\ last.data = {}
    /\ \A i \in 1..Len(last.errors) :
         /\ last.errors[i].path \notin {"password", "confirmPassword"}
              \/ Len(last.errors[i].value) = 0
         /\ \A k \in 1..Len(users) : last.errors[i].value # users[k].password

\* ------------------------------------------------ independence of events
\* The stored events a step changes.
written == { e \in EventIds : events'[e] # events[e] }

\* C33: every step of every operation writes at most one event document, the
\* one the operation is addressed to; every other event keeps its members,
\* guests, expenses, vendors, settings, seating, inviteCode and isActive,
\* whatever requests are in flight.
C33_OnlyTheAddressedEventIsWritten ==
  [][/\ Len(events') = Len(events)
     /\ Cardinality(written) <= 1
     /\ \A e \in written : last'.eid = e]_vars

\* A request addressed to one event is saved while a request on the other
\* event is between its read and its save.
C33_Witness ==
  /\ last.status \in {200, 201} /\ last.eid \in EventIds
  /\ events[last.eid] # << SubEvent, OtherEvent >>[last.eid]
  /\ \E s \in Slots : reqs[s].op # "idle" /\ reqs[s].eid # last.eid

\* ------------------------------------------------ permission values
\* The permissions of the data model.
ModelPermissions == {"owner", "admin", "collaborator", "pending_approval"}

\* Every stored member has one of the permissions of the data model.
StoredPermissionsInModel ==
  \A e \in EventIds : \A i \in 1..Len(events[e].members) :
     events[e].members[i].permissions \in ModelPermissions

\* C34: every member's stored permissions is one of owner, admin,
\* collaborator, pending_approval, and a set_permission request whose :perms
\* is any other string is answered with a failure and changes no permission.
C34_OtherPermissionStringFails ==
  [][/\ StoredPermissionsInModel'
     /\ (last'.op = "set_permission" /\ last'.perms \notin ModelPermissions)
          => (last'.status >= 400 /\ events' = events)]_vars

\* The part of C34 that holds: a set_permission with another string that
\* names a member of the event is answered 500 and changes nothing.
OtherPermissionOfMemberFails ==
  [][(/\ last'.op = "set_permission" /\ last'.perms \notin ModelPermissions
      /\ last'.eid \in EventIds
      /\ matchingMembers(events[last'.eid], paramUserId(last'.target)) # {})
       => (last'.status = 500 /\ events' = events)]_vars

\* ------------------------------------------------ frame of set_permission
\* C35: a set_permission step adds and removes no membership and changes
\* nothing in the members but the permissions of the entries of the target
\* user: every entry of another user is unchanged, the target's user, role
\* and joinedAt are unchanged, and when the target is not a member the
\* members are unchanged.
C35_SetPermissionFrame ==
  [][last'.op = "set_permission" =>
       IF last'.eid = 0 THEN events' = events
       ELSE LET before == events[last'.eid].members
                after == events'[last'.eid].members
                hit == { i \in 1..Len(before) : before[i].user = ObjectId(last'.target) }
            IN /\ Len(after) = Len(before)
               /\ \A i \in 1..Len(before) :
                    IF i \in hit
                    THEN \E p \in PermissionsEnum : after[i] = [before[i] EXCEPT !.permissions = p]
                    ELSE after[i] = before[i]
               /\ hit = {} => after = before]_vars

\* A set_permission was saved on an event with two members and changed the
\* permissions of the second.
C35_Witness ==
  /\ last.op = "set_permission" /\ last.status = 200 /\ last.eid \in EventIds
  /\ Len(events[last.eid].members) >= 2
  /\ \E i \in 2..Len(events[last.eid].members) :
       /\ StrictEquals(toString(events[last.eid].members[i].user), paramUserId(last.target))
       /\ events[last.eid].members[i].permissions = "collaborator"

\* ------------------------------------------------ frame of leave
\* The fields of an event other than its members and what every save stamps.
leaveFrame == {"guests", "expenses", "vendors", "settings", "seating"}

\* C36: a leave of a member that is not the creator, answered 200, removes
\* the entries of that user and nothing else: the entries of the other
\* members are as they were stored, in the same order, and guests, expenses,
\* vendors, settings and seating are unchanged.
C36_LeaveRemovesOnlyTheLeaver ==
  [][(/\ last'.op = "leave" /\ last'.status = 200
      /\ events[last'.eid].createdBy # ObjectId(last'.actor))
       => LET before == events[last'.eid]
              after == events'[last'.eid]
          IN /\ after.members =
                  SelectIdx(before.members,
                            [i \in 1..Len(before.members) |->
                               before.members[i].user # ObjectId(last'.actor)],
                            1)
             /\ \A f \in leaveFrame : after[f] = before[f]]_vars

\* ------------------------------------------------ leave and re-join
\* The answers to user u on event e are those a non-member gets: 404 from
\* every handler that loads the event with the member filter, and the event
\* is not among the user's events.
failsAsNonMember(u, e) ==
  /\ \A plan \in { getEventHandler(u, e), addGuestHandler(u, e, "Ann"), leaveHandler(u, e),
                   updateGuestHandler(u, e, << "0" >>, [rsvp |-> "Attending"]),
                   deleteGuestHandler(u, e, << "0" >>),
                   deleteExpenseHandler(u, e, << "0" >>) } :
       plan.respond /\ plan.resp.status = 404 /\ plan.resp.eid = 0
  /\ e \notin myEventsHandler(u, u).resp.data

withoutPosition(before, after, p) ==
  /\ Len(after) = Len(before) - 1
  /\ \A k \in 1..Len(after) : after[k] = IF k < p THEN before[k] ELSE before[k + 1]

\* C38: a deleteGuest or deleteExpense answered 200 for the index i removes
\* the element at position i of the list the handler loaded and nothing
\* else; an updateGuest answered 200 for the index i keeps the length of the
\* list and every element other than the one at i.
C38_IndexRoutesChangeOnePosition ==
  [][(last'.status = 200 /\ last'.op \in {"deleteGuest", "deleteExpense", "updateGuest"})
       => LET p == parseInt(last'.index).n + 1
              before == events[last'.eid]
              after == events'[last'.eid]
          IN /\ p \in 1..Len(before[listOf(last'.op)])
             /\ last'.op = "deleteGuest" =>
                  withoutPosition(before.guests, after.guests, p) /\ after.expenses = before.expenses
             /\ last'.op = "deleteExpense" =>
                  withoutPosition(before.expenses, after.expenses, p) /\ after.guests = before.guests
             /\ last'.op = "updateGuest" =>
                  /\ Len(after.guests) = Len(before.guests)
                  /\ \A k \in 1..Len(before.guests) : k # p => after.guests[k] = before.guests[k]
                  /\ after.expenses = before.expenses]_vars

\* The first of two guests was deleted: the second is now the only one.
C38_Witness ==
  /\ last.op = "deleteGuest" /\ last.status = 200 /\ last.index = << "0" >>
  /\ last.eid \in EventIds
  /\ events[last.eid].guests = << SubGuest("Bob") >>

\* ------------------------------------------------ seating
\* The stored seating holds what the body carried: the number, the guests by
\* id and name in their order, and the table groups; what the body did not
\* carry is empty.
holdsPayload(seating, seatingData) ==
  /\ seating.totalGuests =
       IF "totalGuests" \in DOMAIN seatingData THEN seatingData.totalGuests ELSE 0
  /\ IF "guestPool" \in DOMAIN seatingData
     THEN /\ Len(seating.guestPool) = Len(seatingData.guestPool)
          /\ \A k \in 1..Len(seating.guestPool) :
               /\ seating.guestPool[k].id = seatingData.guestPool[k].id
               /\ seating.guestPool[k].name = seatingData.guestPool[k].name
     ELSE seating.guestPool = << >>
  /\ seating.tableGroups =
       IF "tableGroups" \in DOMAIN seatingData THEN seatingData.tableGroups ELSE << >>

\* C39: every save-seating request that is answered 200 leaves the stored
\* seating holding the whole body of that request and nothing of an earlier
\* one, also when another save-seating request loaded the event before and
\* saves later, and it leaves members, guests, expenses and settings as they
\* were.
C39_SeatingIsReplacedWhole ==
  [][(last'.op = "saveSeating" /\ last'.status = 200)
       => LET before == events[last'.eid]
              after == events'[last'.eid]
          IN /\ holdsPayload(after.seating, last'.body)
             /\ after.seating.lastUpdated \in 0..now
             /\ \A f \in {"members", "guests", "expenses", "settings", "vendors",
                          "inviteCode", "isActive"} : after[f] = before[f]]_vars

\* Two save-seating requests overlap: both have loaded the event, the one
\* with the complete snapshot of two guests has been answered 200 and is
\* what the event stores, and the one that carries totalGuests only is about
\* to save.
C39_Witness ==
  /\ last.op = "saveSeating" /\ last.status = 200 /\ last.eid \in EventIds
  /\ Len(events[last.eid].seating.guestPool) = 2
  /\ events[last.eid].seating.tableGroups = << SeatGroup >>
  /\ \E s \in Slots : /\ reqs[s].op = "saveSeating"
                      /\ reqs[s].eid = last.eid
                      /\ reqs[s].body = [totalGuests |-> 3]

====
